---- MODULE Spec2Model ----
(***************************************************************************)
(* State-machine model of the gh_webhook bot: webhook ingress and dedup,   *)
(* signature verification, the notification aggregator and mute, the       *)
(* two-tier permission store and tool permission check, the multi-turn AI  *)
(* loop and the PR review controller.  Every subsystem has its own         *)
(* specification over the shared variables; the variables of the other     *)
(* subsystems stay at their constructed values.                            *)
(***************************************************************************)
EXTENDS Integers, Sequences, FiniteSets, TLC

VARIABLES
    now,              \* time.time(), in seconds
    ticks,            \* number of clock advances taken (bounds the run)
    delivery_cache,   \* WebhookProcessor.delivery_cache: delivery_id -> timestamp
    event_queue,      \* WebhookProcessor.event_queue (FIFO of accepted events)
    event_stats,      \* WebhookProcessor.event_stats: event_type -> count
    handled,          \* history: delivery_id -> number of times the handlers ran
    submissions,      \* history: number of process_webhook calls
    enqueued_at,      \* history: delivery_id -> time of its latest enqueue
    enqueued,         \* history: delivery_id -> number of times it was enqueued
    last_req,         \* history: inputs and outcome of the last process_webhook call
    backlog,          \* number of events of other deliveries at the head of event_queue
    putters,          \* process_webhook calls suspended in event_queue.put (FIFO)
    dispatched,       \* history: delivery_id -> repository and handlers of its last dispatch
    is_processing,    \* WebhookProcessor.is_processing: the worker task runs
    last_dispatch,    \* history: the handler results and the result of the last _dispatch_event
    \* permission store and tool permission check
    qq_permissions,      \* permissions_data["qq_permissions"]: qq_id -> level
    github_permissions,  \* permissions_data["github_permissions"]: github_username -> level
    qq_github_mapping,   \* permissions_data["qq_github_mapping"]: qq_id -> github_username
    github_qq_mapping,   \* permissions_data["github_qq_mapping"]: github_username -> qq_ids
    perm_ops,            \* history: number of manage_* calls
    last_call,           \* history: the last call_tool, what the store said, the result
    last_set,            \* history: the last manage_qq_permission by an SU operator
    last_manage,         \* history: the last manage_* call, its operator and its result
    \* multi-turn AI loop
    pc,                  \* position of _call_real_ai_model
    current_turn,        \* current_turn
    llm_calls,           \* history: chat.completions.create calls of this session
    last_role,           \* messages[-1]["role"]
    result,              \* what _call_real_ai_model returned
    tools_offered,       \* whether available_tools was non-empty
    last_turn,           \* history: the calls written in the last response, what was parsed and executed
    wrote_in_session,    \* history: a write tool was executed during this chat turn
    context_saved,       \* handle_qq_message has saved the conversation context
    \* PR review controller
    active_reviews,      \* WebhookProcessor.active_reviews, the tracked keys in it
    other_active,        \* number of other keys in active_reviews
    live,                \* review_key -> number of _perform_ai_review tasks running
    last_review,         \* history: the last _handle_review_request and its outcome
    last_evict,          \* history: the key last inserted over the cap and the key popped for it
    task,                \* the _perform_ai_review task of TaskKey: "none" or "running"
    review_request,      \* the bot is among the requested reviewers of the followed PR
    pr_reviews,          \* visible reviews by the bot on that PR, CHANGES_REQUESTED or COMMENTED
    last_finish,         \* history: how the last followed review task ended
    \* notification aggregator
    agg_now,             \* time.time() as the aggregator reads it, in seconds
    agg_ticks,           \* number of clock advances taken (bounds the run)
    mute_until,          \* MessageAggregator.mute_until
    aggregation_groups,  \* MessageAggregator.aggregation_groups
    timers,              \* threading.Timer objects started and neither fired nor cancelled
    pending,             \* _send_aggregated_messages coroutines scheduled on the loop
    in_flight,           \* key -> number of drains that are sending their bundle
    requests,            \* history: number of message requests
    accepted,            \* history: the messages add_message appended, with key and time
    sends,               \* history: the sends to a target
    drops,               \* history: the paths that dropped a notification under mute
    \* rate limiter of the chat sender (QQMessageSender)
    rate_limiter,        \* rate_limiter: target -> the recorded send instants
    rate_now,            \* time.time() as the sender reads it
    rate_ticks,          \* history: number of clock steps
    send_attempts,       \* history: number of send calls
    sent_at,             \* history: target -> instants of the sends handed to the platform
    last_send,           \* history: target and outcome of the last send call
    last_validate,       \* history: the last tool call handed to call_tool and what became of it
    user_limits,         \* RateLimiter.user_limits: chat-user -> RateLimitInfo, NoLimit before the first check
    chat_now,            \* datetime.now() of the chat side, in seconds
    chat_ticks,          \* number of clock steps taken
    limiter_checks,      \* history: number of check_rate_limit calls
    granted,             \* history: chat-user -> operation type -> grants since the window was reset
    granted_now,         \* history: chat-user -> grants since the clock last moved
    last_check,          \* history: the last check_rate_limit call and its result
    conv_messages,       \* ConversationContext.messages of the one context followed
    appends,             \* history: number of add_message calls on it; the n-th message has id n
    last_chat,           \* history: the last chat message and what the handler did with it
    last_recall          \* history: the last recall and the ids of the messages it removed

webhookVars == <<now, ticks, delivery_cache, event_queue, event_stats, handled,
                 submissions, enqueued_at, enqueued, last_req, backlog, putters,
                 dispatched, last_dispatch, is_processing>>

permVars == <<qq_permissions, github_permissions, qq_github_mapping, github_qq_mapping,
              perm_ops, last_call, last_set, last_manage>>

loopVars == <<pc, current_turn, llm_calls, last_role, result, tools_offered, last_turn,
             wrote_in_session, context_saved>>

reviewVars == <<active_reviews, other_active, live, last_review, last_evict,
               task, review_request, pr_reviews, last_finish>>

aggVars == <<agg_now, agg_ticks, mute_until, aggregation_groups, timers, pending,
             in_flight, requests, accepted, sends, drops>>

\* the chat sender's rate limiter
rateVars == <<rate_limiter, rate_now, rate_ticks, send_attempts, sent_at, last_send>>

validateVars == <<last_validate>>

\* the limiter of the chat handler
limiterVars == <<user_limits, chat_now, chat_ticks, limiter_checks, granted, granted_now,
                 last_check>>

\* the conversation context
contextVars == <<conv_messages, appends>>

\* history of the chat handler
handlerVars == <<last_chat, last_recall>>

chatVars == <<validateVars, limiterVars, contextVars, handlerVars>>

vars == <<webhookVars, permVars, loopVars, reviewVars, aggVars, rateVars, chatVars>>

(***************************************************************************)
(* Bounds of the model                                                     *)
(***************************************************************************)
MaxSubmissions == 2
MaxSignedSubmissions == 2
MaxTicks == 2

(***************************************************************************)
(* Webhook ingress: inputs                                                 *)
(***************************************************************************)
cache_ttl == 3600
QueueMaxSize == 1000

None == "None"
NoTime == -1
\* a signature header is prefix + hex digest; the missing header is the empty string
NoSig == [prefix |-> "", digest |-> <<>>]

supported_events == {"push", "pull_request"}

\* X-GitHub-Delivery identifies one event: a redelivery carries the same
\* X-GitHub-Event.  d3 is a delivery of an event type outside supported_events.
EventTypeOf == [d \in {"d1", "d2", "d3"} |->
                   CASE d = "d1" -> "push" [] d = "d2" -> "pull_request" [] d = "d3" -> "gollum"]
DeliveryIds == DOMAIN EventTypeOf
TickSteps == {1, cache_ttl}

\* Repository configuration as config_manager.get_repository_config returns it.
\* A repository missing from the domain has no configuration.
RepoConfigs ==
    [r \in {"o/r", "o/off", "o/nv", "o/ns", "o/al"} |->
        CASE r = "o/r"   -> [enabled |-> TRUE,  verify_signature |-> TRUE,  webhook_secret |-> "s1"]
          [] r = "o/off" -> [enabled |-> FALSE, verify_signature |-> TRUE,  webhook_secret |-> "s1"]
          [] r = "o/nv"  -> [enabled |-> TRUE,  verify_signature |-> FALSE, webhook_secret |-> ""]
          [] r = "o/ns"  -> [enabled |-> TRUE,  verify_signature |-> TRUE,  webhook_secret |-> ""]
          [] r = "o/al"  -> [enabled |-> TRUE,  verify_signature |-> TRUE,  webhook_secret |-> "s1"]]

\* allowed_message_types of the repository configurations: "o/al" lists push
\* only, the others list nothing
get_repo_allowed_message_types(repo_name) ==
    IF repo_name = "o/al" THEN {"push"} ELSE {}

\* ConfigManager.is_message_type_allowed
is_message_type_allowed(repo_name, message_type) ==
    IF get_repo_allowed_message_types(repo_name) = {} THEN TRUE
    ELSE message_type \in get_repo_allowed_message_types(repo_name)

\* None: the payload carries no repository.full_name
RepoInputs == DOMAIN RepoConfigs \cup {"o/unknown", None}

\* config_manager.get_repository_config: has_repository_config is "the lookup
\* returned a configuration", get_repository_config the configuration itself
has_repository_config(repository) == repository \in DOMAIN RepoConfigs

get_repository_config(repository) == RepoConfigs[repository]

(***************************************************************************)
(* Signature verifier (utils.verify_github_signature)                      *)
(***************************************************************************)
\* hmac.new(secret, body, algorithm).hexdigest(): a digest is determined by
\* the algorithm, the key and the message, and differs when any of them does.
HmacHexdigest(algorithm, secret, body) == <<algorithm, secret, body>>

RawBody == "b1"

\* Digests a sender can present: the right one, and ones computed under the
\* other algorithm, another key or another body.
Digests ==
    { HmacHexdigest("sha256", "s1", RawBody), HmacHexdigest("sha1", "s1", RawBody),
      HmacHexdigest("sha256", "s2", RawBody), HmacHexdigest("sha256", "s1", "b2") }

SignatureHeaders ==
    {NoSig} \cup [prefix : {"sha256=", "sha1="}, digest : Digests]
            \cup {[prefix |-> "md5=", digest |-> HmacHexdigest("sha256", "s1", RawBody)]}

GoodSig == [prefix |-> "sha256=", digest |-> HmacHexdigest("sha256", "s1", RawBody)]
WrongKeySig == [prefix |-> "sha256=", digest |-> HmacHexdigest("sha256", "s2", RawBody)]

AlgorithmOf(prefix) ==
    CASE prefix = "sha1="   -> "sha1"
      [] prefix = "sha256=" -> "sha256"
      [] OTHER              -> None

verify_github_signature(payload_body, signature_header, secret) ==
    IF signature_header = NoSig \/ secret = ""
    THEN TRUE
    ELSE IF AlgorithmOf(signature_header.prefix) = None
         THEN FALSE
         ELSE signature_header.digest =
                  HmacHexdigest(AlgorithmOf(signature_header.prefix), secret, payload_body)

\* WebhookProcessor.utils is set by set_dependencies before the server starts
utils_initialized == TRUE

\* WebhookProcessor._verify_webhook_signature
verify_webhook_signature(repository, signature, raw_body) ==
    IF repository = None
    THEN FALSE
    ELSE LET repo_config == get_repository_config(repository) IN
         IF ~repo_config.verify_signature THEN TRUE
         ELSE IF ~utils_initialized THEN TRUE
         ELSE IF repo_config.webhook_secret = "" THEN FALSE
         ELSE verify_github_signature(raw_body, signature, repo_config.webhook_secret)

\* WebhookProcessor._is_repository_enabled
is_repository_enabled(repository) ==
    /\ repository # None
    /\ has_repository_config(repository)
    /\ get_repository_config(repository).enabled

\* WebhookProcessor._validate_event (event_type, delivery_id and payload are
\* present: the HTTP layer rejects requests without them)
validate_event(event_type) == event_type \in supported_events

(***************************************************************************)
(* Delivery dedup cache (WebhookProcessor._is_duplicate_delivery)          *)
(***************************************************************************)
\* mutant: the entry expires one second early
IsExpiredEarly(timestamp, current_time) == current_time - timestamp >= cache_ttl

IsExpired(timestamp, current_time) == current_time - timestamp > cache_ttl

ExpireCache(cache, current_time) ==
    [key \in {k \in DOMAIN cache : ~IsExpired(cache[k], current_time)} |-> cache[key]]

is_duplicate_delivery(cache, delivery_id, current_time) ==
    delivery_id \in DOMAIN ExpireCache(cache, current_time)

CacheAfterLookup(cache, delivery_id, current_time) ==
    IF is_duplicate_delivery(cache, delivery_id, current_time)
    THEN ExpireCache(cache, current_time)
    ELSE (delivery_id :> current_time) @@ ExpireCache(cache, current_time)

(***************************************************************************)
(* WebhookProcessor.process_webhook                                        *)
(***************************************************************************)
\* The step at which process_webhook returns, in the order the code tests.
Outcome(cache, event_type, delivery_id, repository, signature, raw_body, current_time) ==
    IF ~validate_event(event_type) THEN "invalid"
    ELSE IF is_duplicate_delivery(cache, delivery_id, current_time) THEN "duplicate"
    ELSE IF repository = None THEN "no_repository"
    ELSE IF ~has_repository_config(repository) THEN "unconfigured"
    ELSE IF ~is_repository_enabled(repository) THEN "disabled"
    ELSE IF ~verify_webhook_signature(repository, signature, raw_body) THEN "signature_failed"
    ELSE "enqueued"

\* the boolean process_webhook returns
ReturnValue(outcome) == outcome \in {"duplicate", "unconfigured", "disabled", "enqueued"}

\* event_queue.qsize() and event_queue.full()
qsize == backlog + Len(event_queue)

QueueFull == qsize >= QueueMaxSize

\* `await self.event_queue.put(event)` returns at once while the queue has
\* room; on a full queue the call is suspended until the worker takes an
\* event ("waiting_put"), and put never raises asyncio.QueueFull.
process_webhook(event_type, delivery_id, repository, signature) ==
    LET passed == Outcome(delivery_cache, event_type, delivery_id, repository,
                          signature, RawBody, now)
        outcome == IF passed = "enqueued" /\ QueueFull THEN "waiting_put" ELSE passed
        event == [event_type |-> event_type, delivery_id |-> delivery_id,
                  repository |-> repository]
    IN  /\ submissions' = submissions + 1
        /\ putters' = IF outcome = "waiting_put" THEN Append(putters, event) ELSE putters
        /\ delivery_cache' =
              IF outcome = "invalid" THEN delivery_cache
              ELSE CacheAfterLookup(delivery_cache, delivery_id, now)
        /\ event_queue' =
              IF outcome = "enqueued"
              THEN Append(event_queue, event)
              ELSE event_queue
        /\ enqueued_at' =
              IF outcome = "enqueued" THEN [enqueued_at EXCEPT ![delivery_id] = now]
              ELSE enqueued_at
        /\ enqueued' =
              IF outcome = "enqueued" THEN [enqueued EXCEPT ![delivery_id] = @ + 1]
              ELSE enqueued
        /\ last_req' = [delivery_id |-> delivery_id, repository |-> repository,
                        signature |-> signature, outcome |-> outcome,
                        t |-> now, prev_enqueued_at |-> enqueued_at[delivery_id],
                        queue_full |-> QueueFull, processing |-> is_processing]
        /\ UNCHANGED <<now, ticks, event_stats, handled, backlog, dispatched, last_dispatch,
                       is_processing>>
        /\ UNCHANGED <<permVars, loopVars, reviewVars, aggVars, rateVars, chatVars>>

\* Deliveries to the repository that verifies signatures and to a disabled
\* one, signed with the right or with a wrong key.
Submit ==
    /\ submissions < MaxSubmissions
    /\ \E delivery_id \in DeliveryIds,
          repository \in {"o/r", "o/off"}, signature \in {GoodSig, WrongKeySig} :
           process_webhook(EventTypeOf[delivery_id], delivery_id, repository, signature)

\* Deliveries to every kind of repository with every kind of signature header.
SubmitSigned ==
    /\ submissions < MaxSignedSubmissions
    /\ \E delivery_id \in DeliveryIds,
          repository \in RepoInputs, signature \in SignatureHeaders :
           process_webhook(EventTypeOf[delivery_id], delivery_id, repository, signature)

\* event_queue.get() frees a slot and wakes the first suspended put, which
\* then enqueues its event and lets its process_webhook return True
WakePutter(queue_after_get) ==
    IF putters = <<>>
    THEN /\ event_queue' = queue_after_get
         /\ UNCHANGED <<putters, enqueued_at, enqueued, last_req>>
    ELSE LET event == Head(putters) IN
         /\ event_queue' = Append(queue_after_get, event)
         /\ putters' = Tail(putters)
         /\ enqueued_at' = [enqueued_at EXCEPT ![event.delivery_id] = now]
         /\ enqueued' = [enqueued EXCEPT ![event.delivery_id] = @ + 1]
         /\ last_req' = IF last_req.delivery_id = event.delivery_id
                            /\ last_req.outcome = "waiting_put"
                         THEN [last_req EXCEPT !.outcome = "enqueued"]
                         ELSE last_req

\* payload["action"] of a delivery: d2 is a pull_request review request
PayloadActionOf(delivery_id) ==
    IF delivery_id = "d2" THEN "review_requested" ELSE "none"

\* _dispatch_event: the handlers that act on an event (msg_processor,
\* github_processor and the AI handler are set).  _handle_message_notification
\* returns before it builds a message when the type is not allowed.
DispatchedHandlers(event) ==
    (IF is_message_type_allowed(event.repository, event.event_type)
     THEN {"message_notification"} ELSE {})
    \cup (IF event.event_type \in {"issues", "pull_request"}
          THEN {"github_processing"} ELSE {})
    \cup (IF event.event_type = "pull_request"
             /\ PayloadActionOf(event.delivery_id)
                    \in {"review_requested", "review_request_removed"}
          THEN {"review_request"} ELSE {})
    \cup (IF event.event_type \in {"issue_comment", "pull_request_review_comment"}
          THEN {"comment_reply"} ELSE {})

\* _dispatch_event: the handlers put into tasks
InvokedTasks(event) ==
    {"message_notification"}
    \cup (IF event.event_type \in {"issues", "pull_request"}
          THEN {"github_processing"} ELSE {})
    \cup (IF event.event_type = "pull_request"
             /\ PayloadActionOf(event.delivery_id)
                    \in {"review_requested", "review_request_removed"}
          THEN {"review_request"} ELSE {})
    \cup (IF event.event_type \in {"issue_comment", "pull_request_review_comment"}
          THEN {"comment_reply"} ELSE {})

\* what a handler can return: every handler catches its exceptions and returns
\* False; the notification handler returns True when the type is not allowed
HandlerReturns(event, handler) ==
    IF handler = "message_notification"
       /\ ~is_message_type_allowed(event.repository, event.event_type)
    THEN {TRUE}
    ELSE BOOLEAN

\* mutant: success only if every handler succeeded
all_tasks_succeeded(results) == \A handler \in DOMAIN results : results[handler]

\* _dispatch_event: the value returned for the gathered results
dispatch_result(results) ==
    IF DOMAIN results # {}
    THEN Cardinality({handler \in DOMAIN results : results[handler]}) > 0
    ELSE TRUE

\* mutant: the worker leaves its loop after an event that failed
loop_ends_on_failure(success) == success

\* _process_event_queue after _handle_single_event returned: the result of the
\* dispatch is kept on the event and the loop tests is_processing again
loop_continues(success) == TRUE

max_consecutive_errors == 5

\* the except branch of the loop, for an exception that reaches it: the
\* counter afterwards and the seconds slept before the next pull
after_exception(consecutive_errors) ==
    IF consecutive_errors + 1 >= max_consecutive_errors
    THEN [consecutive_errors |-> 0, slept |-> 30]
    ELSE [consecutive_errors |-> consecutive_errors + 1,
          slept |-> IF (consecutive_errors + 1) * 2 < 10
                    THEN (consecutive_errors + 1) * 2 ELSE 10]

\* the try branch: _handle_single_event has caught what the dispatch raised
\* and returned, the loop calls task_done and sets the counter to 0
after_handled(consecutive_errors) ==
    [consecutive_errors |-> 0, slept |-> 0]

\* WebhookProcessor._process_event_queue / _handle_single_event: the worker
\* pulls the head of the queue, counts it and runs the handlers.
HandleSingleEvent ==
    /\ is_processing
    /\ backlog = 0
    /\ event_queue # <<>>
    /\ LET event == Head(event_queue) IN
        /\ event_stats' = [event_stats EXCEPT ![event.event_type] = @ + 1]
        /\ handled' = [handled EXCEPT ![event.delivery_id] = @ + 1]
        /\ dispatched' = [dispatched EXCEPT ![event.delivery_id] =
                              [repository |-> event.repository,
                               handlers |-> DispatchedHandlers(event)]]
        /\ \E results \in [InvokedTasks(event) -> BOOLEAN] :
               /\ \A handler \in InvokedTasks(event) :
                      results[handler] \in HandlerReturns(event, handler)
               /\ last_dispatch' = [delivery_id |-> event.delivery_id,
                                    results |-> results,
                                    success |-> dispatch_result(results),
                                    after_failure |-> last_dispatch.delivery_id # None
                                                      /\ ~last_dispatch.success,
                                    worker |-> after_handled(last_dispatch.worker.consecutive_errors)]
               /\ is_processing' = loop_continues(dispatch_result(results))
    /\ WakePutter(Tail(event_queue))
    /\ UNCHANGED <<now, ticks, delivery_cache, submissions, backlog>>
    /\ UNCHANGED <<permVars, loopVars, reviewVars, aggVars, rateVars, chatVars>>

\* time passes: by a second, or by the length of the cache window
Tick ==
    /\ ticks < MaxTicks
    /\ \E dt \in TickSteps : now' = now + dt
    /\ ticks' = ticks + 1
    /\ UNCHANGED <<delivery_cache, event_queue, event_stats, handled, submissions,
                   enqueued_at, enqueued, last_req, backlog, putters, dispatched, last_dispatch,
                   is_processing>>
    /\ UNCHANGED <<permVars, loopVars, reviewVars, aggVars, rateVars, chatVars>>

\* A valid delivery of another supported event type is accepted while the
\* queue has room and no tracked event is behind it; its counter is not tracked.
SubmitOtherDelivery ==
    /\ event_queue = <<>>
    /\ putters = <<>>
    /\ ~QueueFull
    /\ backlog' = backlog + 1
    /\ UNCHANGED <<now, ticks, delivery_cache, event_queue, event_stats, handled,
                   submissions, enqueued_at, enqueued, last_req, putters, dispatched, last_dispatch,
                   is_processing>>
    /\ UNCHANGED <<permVars, loopVars, reviewVars, aggVars, rateVars, chatVars>>

\* The worker handles the event of another delivery at the head of the queue.
HandleOtherEvent ==
    /\ is_processing
    /\ backlog > 0
    /\ backlog' = backlog - 1
    /\ WakePutter(event_queue)
    /\ UNCHANGED <<now, ticks, delivery_cache, event_stats, handled, submissions,
                   dispatched, last_dispatch, is_processing>>
    /\ UNCHANGED <<permVars, loopVars, reviewVars, aggVars, rateVars, chatVars>>

\* Valid, correctly signed deliveries to the repository that verifies signatures.
SubmitValid ==
    /\ submissions < MaxSubmissions
    /\ \E delivery_id \in {"d1", "d2"} :
           process_webhook(EventTypeOf[delivery_id], delivery_id, "o/r", GoodSig)

\* Correctly signed deliveries to the repository with an allow-list and to
\* the one without.
SubmitAllowList ==
    /\ submissions < MaxSubmissions
    /\ \E delivery_id \in DeliveryIds, repository \in {"o/al", "o/r"} :
           process_webhook(EventTypeOf[delivery_id], delivery_id, repository, GoodSig)

\* stop_processing: the flag is cleared and the worker task is cancelled; the
\* queue is left as it is
StopProcessing ==
    /\ is_processing
    /\ is_processing' = FALSE
    /\ UNCHANGED <<now, ticks, delivery_cache, event_queue, event_stats, handled,
                   submissions, enqueued_at, enqueued, last_req, backlog, putters,
                   dispatched, last_dispatch>>
    /\ UNCHANGED <<permVars, loopVars, reviewVars, aggVars, rateVars, chatVars>>

\* cleanup: stop_processing, then the cache and the counters are cleared and
\* the queued events are taken off the queue with get_nowait, unhandled
Cleanup ==
    /\ putters = <<>>
    /\ is_processing' = FALSE
    /\ delivery_cache' = [d \in {} |-> 0]
    /\ event_stats' = [e \in supported_events |-> 0]
    /\ event_queue' = <<>>
    /\ backlog' = 0
    /\ UNCHANGED <<now, ticks, handled, submissions, enqueued_at, enqueued, last_req,
                   putters, dispatched, last_dispatch>>
    /\ UNCHANGED <<permVars, loopVars, reviewVars, aggVars, rateVars, chatVars>>

\* The processor as the API server first sees it: WebhookBot.start calls
\* start_processing before it starts the server.
InitWebhook ==
    /\ now = 0
    /\ ticks = 0
    /\ delivery_cache = [d \in {} |-> 0]
    /\ event_queue = <<>>
    /\ event_stats = [e \in supported_events |-> 0]
    /\ handled = [d \in DeliveryIds |-> 0]
    /\ submissions = 0
    /\ enqueued_at = [d \in DeliveryIds |-> NoTime]
    /\ enqueued = [d \in DeliveryIds |-> 0]
    /\ last_req = [delivery_id |-> None, repository |-> None, signature |-> NoSig,
                   outcome |-> "none", t |-> 0, prev_enqueued_at |-> NoTime, queue_full |-> FALSE,
                   processing |-> TRUE]
    /\ backlog = 0
    /\ putters = <<>>
    /\ dispatched = [d \in DeliveryIds |-> [repository |-> None, handlers |-> {}]]
    /\ last_dispatch = [delivery_id |-> None, results |-> <<>>, success |-> FALSE,
                        after_failure |-> FALSE,
                        worker |-> [consecutive_errors |-> 0, slept |-> 0]]
    /\ is_processing = TRUE

(***************************************************************************)
(* Permission store (SimplifiedPermissionManager)                          *)
(***************************************************************************)
MaxPermOps == 3

QQUsers == {"su", "u1"}
GithubUsers == {"g1", "g2"}

\* SUPERUSERS of the .env file
superusers == {"su"}

QQPermissionLevels == {"none", "read", "write", "su"}
GitHubPermissionLevels == {"none", "write"}

\* permission_hierarchy of has_qq_permission
permission_hierarchy(permission) ==
    CASE permission = "none"  -> 0
      [] permission = "read"  -> 1
      [] permission = "write" -> 2
      [] permission = "su"    -> 3

is_superuser(qq_id) == qq_id \in superusers

\* a user without an entry in qq_permissions reads as "none"
get_qq_permission(qq_id) ==
    IF is_superuser(qq_id) THEN "su" ELSE qq_permissions[qq_id]

get_github_by_qq(qq_id) == qq_github_mapping[qq_id]

get_github_permission(github_username) == github_permissions[github_username]

\* mutant: the stored level, without the mapping of a bound NONE user to READ
base_qq_permission(qq_id) == get_qq_permission(qq_id)

get_effective_qq_permission(qq_id) ==
    IF get_qq_permission(qq_id) = "none" /\ get_github_by_qq(qq_id) # None
    THEN "read"
    ELSE get_qq_permission(qq_id)

\* mutant: every chat-user passes the level test
has_every_permission(qq_id, required_permission) == TRUE

has_qq_permission(qq_id, required_permission) ==
    permission_hierarchy(get_effective_qq_permission(qq_id))
        >= permission_hierarchy(required_permission)

\* write_operations of check_mcp_write_permission
pm_write_operations ==
    {"create_issue", "update_issue", "close_issue", "create_pull_request",
     "update_pull_request", "merge_pull_request", "add_comment", "update_comment",
     "delete_comment", "create_label"}

check_mcp_write_permission(qq_id, operation) ==
    IF operation \notin pm_write_operations THEN TRUE
    ELSE IF get_effective_qq_permission(qq_id) \in {"write", "su"} THEN TRUE
    ELSE /\ get_github_by_qq(qq_id) # None
         /\ get_github_permission(get_github_by_qq(qq_id)) = "write"

\* mutant: every level is stored, SU included
store_any_level(qq_id, permission) ==
    [qq_permissions EXCEPT ![qq_id] = permission]

\* set_qq_permission: SU is refused, every other level is stored
set_qq_permission(qq_id, permission) ==
    IF permission = "su" THEN qq_permissions
    ELSE [qq_permissions EXCEPT ![qq_id] = permission]

set_github_permission(github_username, permission) ==
    [github_permissions EXCEPT ![github_username] = permission]

\* bind_qq_github: the forward map is overwritten, the user is added to the
\* list of the new code-host user (and stays in the list of an old one)
bind_qq_github_forward(qq_id, github_username) ==
    [qq_github_mapping EXCEPT ![qq_id] = github_username]

bind_qq_github_reverse(qq_id, github_username) ==
    [github_qq_mapping EXCEPT ![github_username] = @ \cup {qq_id}]

\* unbind_qq_github: nothing happens for an unbound user
unbind_qq_github_forward(qq_id) ==
    [qq_github_mapping EXCEPT ![qq_id] = None]

unbind_qq_github_reverse(qq_id) ==
    IF qq_github_mapping[qq_id] = None THEN github_qq_mapping
    ELSE [github_qq_mapping EXCEPT ![qq_github_mapping[qq_id]] = @ \ {qq_id}]

\* the return value of set_qq_permission
set_qq_permission_returns(permission) == permission # "su"

\* remove_qq_permission: the entry is deleted, the user reads as "none" again
remove_qq_permission(qq_id) == [qq_permissions EXCEPT ![qq_id] = "none"]

\* manage_qq_permission
ManageQQPermission ==
    /\ perm_ops < MaxPermOps
    /\ \E operator_qq_id \in QQUsers, target_qq_id \in QQUsers,
          permission \in QQPermissionLevels :
           /\ qq_permissions' =
                  IF has_qq_permission(operator_qq_id, "su")
                  THEN set_qq_permission(target_qq_id, permission)
                  ELSE qq_permissions
           /\ last_set' =
                  IF has_qq_permission(operator_qq_id, "su")
                  THEN [target |-> target_qq_id, permission |-> permission,
                        returned |-> set_qq_permission_returns(permission),
                        stored |-> qq_permissions' # qq_permissions]
                  ELSE last_set
           /\ last_manage' =
                  [operation |-> "manage_qq_permission",
                   by_su |-> get_qq_permission(operator_qq_id) = "su",
                   returned |-> has_qq_permission(operator_qq_id, "su")
                                /\ set_qq_permission_returns(permission),
                   changed |-> qq_permissions' # qq_permissions]
    /\ perm_ops' = perm_ops + 1
    /\ UNCHANGED <<github_permissions, qq_github_mapping, github_qq_mapping, last_call>>
    /\ UNCHANGED <<webhookVars, loopVars, reviewVars, aggVars, rateVars, chatVars>>

\* remove_qq_permission called on the store
RemoveQQPermission ==
    /\ perm_ops < MaxPermOps
    /\ \E qq_id \in QQUsers : qq_permissions' = remove_qq_permission(qq_id)
    /\ perm_ops' = perm_ops + 1
    /\ UNCHANGED <<github_permissions, qq_github_mapping, github_qq_mapping,
                   last_call, last_set, last_manage>>
    /\ UNCHANGED <<webhookVars, loopVars, reviewVars, aggVars, rateVars, chatVars>>

\* manage_github_permission
ManageGithubPermission ==
    /\ perm_ops < MaxPermOps
    /\ \E operator_qq_id \in QQUsers, github_username \in GithubUsers,
          permission \in GitHubPermissionLevels :
           /\ github_permissions' =
                  IF has_qq_permission(operator_qq_id, "su")
                  THEN set_github_permission(github_username, permission)
                  ELSE github_permissions
           /\ last_manage' =
                  [operation |-> "manage_github_permission",
                   by_su |-> get_qq_permission(operator_qq_id) = "su",
                   returned |-> has_qq_permission(operator_qq_id, "su"),
                   changed |-> github_permissions' # github_permissions]
    /\ perm_ops' = perm_ops + 1
    /\ UNCHANGED <<qq_permissions, qq_github_mapping, github_qq_mapping, last_call, last_set>>
    /\ UNCHANGED <<webhookVars, loopVars, reviewVars, aggVars, rateVars, chatVars>>

\* manage_user_binding
ManageUserBinding ==
    /\ perm_ops < MaxPermOps
    /\ \E operator_qq_id \in QQUsers, qq_id \in QQUsers,
          github_username \in GithubUsers, action \in {"bind", "unbind", "other"} :
           /\ IF ~has_qq_permission(operator_qq_id, "su") \/ action = "other"
              THEN UNCHANGED <<qq_github_mapping, github_qq_mapping>>
              ELSE IF action = "bind"
              THEN /\ qq_github_mapping' = bind_qq_github_forward(qq_id, github_username)
                   /\ github_qq_mapping' = bind_qq_github_reverse(qq_id, github_username)
              ELSE /\ qq_github_mapping' = unbind_qq_github_forward(qq_id)
                   /\ github_qq_mapping' = unbind_qq_github_reverse(qq_id)
           /\ last_manage' =
                  [operation |-> "manage_user_binding",
                   by_su |-> get_qq_permission(operator_qq_id) = "su",
                   returned |-> has_qq_permission(operator_qq_id, "su") /\ action # "other",
                   changed |-> \/ qq_github_mapping' # qq_github_mapping
                               \/ github_qq_mapping' # github_qq_mapping]
    /\ perm_ops' = perm_ops + 1
    /\ UNCHANGED <<qq_permissions, github_permissions, last_call, last_set>>
    /\ UNCHANGED <<webhookVars, loopVars, reviewVars, aggVars, rateVars, chatVars>>

(***************************************************************************)
(* Tool permission check (MCPTools.call_tool / _check_tool_permissions)    *)
(***************************************************************************)
\* "permissions" of the registered tools (MCPCapabilities._setup_default_tools)
tool_permissions ==
    [t \in {"create_issue", "create_issue_comment", "get_issue", "search_conversations"} |->
        CASE t = "create_issue"         -> "github_write"
          [] t = "create_issue_comment" -> "github_write"
          [] t = "get_issue"            -> "github_read"
          [] t = "search_conversations" -> "ai_chat"]

ToolNames == DOMAIN tool_permissions

\* read_operations and write_operations of _check_tool_permissions
read_operations ==
    {"get_pull_request", "list_pull_requests", "get_issue", "list_issues",
     "get_issue_comments", "list_comments", "search_code", "get_file_content",
     "list_repository_files", "list_labels", "get_repository_info",
     "search_conversations", "get_context_statistics", "find_related_contexts"}

write_operations ==
    {"create_pull_request", "update_pull_request", "merge_pull_request",
     "create_issue", "update_issue", "close_issue", "add_comment",
     "update_comment", "delete_comment", "create_label", "add_labels_to_issue",
     "remove_labels_from_issue", "assign_issue", "unassign_issue"}

permission_mapping(old_permission) ==
    CASE old_permission = "ai_chat"      -> "read"
      [] old_permission = "github_read"  -> "read"
      [] old_permission = "github_write" -> "write"
      [] old_permission = "user_manage"  -> "su"
      [] old_permission = "system_admin" -> "su"
      [] OTHER                           -> "read"

\* the check by operation class (first half of _check_tool_permissions)
operation_check(tool_name, user_id) ==
    IF tool_name \in write_operations
    THEN check_mcp_write_permission(user_id, tool_name)
    ELSE IF tool_name \in read_operations
    THEN has_qq_permission(user_id, "read") \/ check_mcp_write_permission(user_id, tool_name)
    ELSE check_mcp_write_permission(user_id, tool_name)

\* mutant: a tool configuration without a "permissions" entry
no_required_permissions(tool_name, user_id) == TRUE

\* the check of the tool's "permissions" entry (second half)
required_permissions_check(tool_name, user_id) ==
    has_qq_permission(user_id, permission_mapping(tool_permissions[tool_name]))

\* TRUE when _check_tool_permissions returns, FALSE when it raises MCPPermissionError
check_tool_permissions(tool_name, user_id) ==
    IF user_id = None THEN TRUE
    ELSE IF has_qq_permission(user_id, "su") THEN TRUE
    ELSE operation_check(tool_name, user_id) /\ required_permissions_check(tool_name, user_id)

\* what the store says about the caller when the call is made
github_level_of(user_id) ==
    IF user_id = None THEN "unbound"
    ELSE IF get_github_by_qq(user_id) = None THEN "unbound"
    ELSE get_github_permission(get_github_by_qq(user_id))

\* call_tool of a registered tool with valid parameters
CallTool ==
    /\ \E tool_name \in ToolNames, user_id \in QQUsers \cup {None} :
           last_call' =
               [tool_name |-> tool_name, user_id |-> user_id,
                result |-> IF check_tool_permissions(tool_name, user_id)
                           THEN "executed" ELSE "permission_error",
                is_su |-> user_id # None /\ is_superuser(user_id),
                qq_level |-> IF user_id = None THEN "none" ELSE get_qq_permission(user_id),
                github_level |-> github_level_of(user_id)]
    /\ UNCHANGED <<qq_permissions, github_permissions, qq_github_mapping,
                   github_qq_mapping, perm_ops, last_set, last_manage>>
    /\ UNCHANGED <<webhookVars, loopVars, reviewVars, aggVars, rateVars, chatVars>>

InitPerm ==
    /\ qq_permissions = [q \in QQUsers |-> "none"]
    /\ github_permissions = [g \in GithubUsers |-> "none"]
    /\ qq_github_mapping = [q \in QQUsers |-> None]
    /\ github_qq_mapping = [g \in GithubUsers |-> {}]
    /\ perm_ops = 0
    /\ last_call = [tool_name |-> None, user_id |-> None, result |-> "none",
                    is_su |-> FALSE, qq_level |-> "none", github_level |-> "unbound"]
    /\ last_set = [target |-> None, permission |-> "none", returned |-> FALSE,
                   stored |-> FALSE]
    /\ last_manage = [operation |-> "none", by_su |-> FALSE, returned |-> FALSE,
                      changed |-> FALSE]

NextPerm ==
    \/ ManageQQPermission \/ RemoveQQPermission
    \/ ManageGithubPermission \/ ManageUserBinding \/ CallTool

(***************************************************************************)
(* Multi-turn AI loop (EnhancedAIHandler._call_real_ai_model)              *)
(***************************************************************************)
max_turns == 15

\* mutant: the loop admits one turn more
LoopGuardInclusive(turn) == turn <= max_turns

\* while current_turn < max_turns
LoopGuard(turn) == turn < max_turns

\* what process_ai_response can report about a response; wrote says that a
\* write tool is among the tools it executed
ProcessResults ==
    {r \in [conversation_ended : BOOLEAN, has_tool_calls : BOOLEAN,
            has_tool_results : BOOLEAN, should_send_response : BOOLEAN,
            wrote : BOOLEAN] :
        /\ r.has_tool_results => r.has_tool_calls
        /\ r.has_tool_calls => ~r.conversation_ended
        /\ r.wrote => r.has_tool_results}

\* the [TOOL_CALL] texts of a response, each with what validate_parameters
\* says about it
MaxCalls == 2
ResponseCalls ==
    UNION {[1..n -> [valid : BOOLEAN]] : n \in 0..MaxCalls}

\* mutant: a call that fails the validation stays in the list
keep_all_calls(calls) == calls

\* _parse_bracket_tool_calls: a call whose validation raises is logged and
\* left out of the list
parse_bracket_tool_calls(calls) == SelectSeq(calls, LAMBDA call : call.valid)

\* process_result.get("executed_tools", []): no dict that process_ai_response
\* returns has the key
executed_tools(process_result) == {}

\* write_operations of _call_real_ai_model
reply_write_operations ==
    {"create_issue", "add_comment", "merge_pull_request", "close_issue",
     "reopen_issue", "close_pull_request", "reopen_pull_request", "add_label",
     "remove_label", "assign_user", "unassign_user", "request_review",
     "create_pull_request", "update_issue", "update_pull_request",
     "delete_comment", "edit_comment"}

has_write_operation(process_result) ==
    executed_tools(process_result) \cap reply_write_operations # {}

\* the return after the loop (max turns reached, or an empty model response)
ReturnAfterLoop(role) ==
    IF role = "assistant" THEN "last_response" ELSE "turn_limit_message"

NoTurn == [written |-> 0, tool_calls |-> 0, tool_results |-> 0, continued |-> FALSE]

\* a chat request enters _call_real_ai_model: the initial messages end with
\* the user's prompt, and the tools the user may use, if any, are described
\* in the system message
StartSession ==
    /\ pc \in {"idle", "done"}
    /\ pc' = "loop"
    /\ current_turn' = 0
    /\ llm_calls' = 0
    /\ last_role' = "user"
    /\ result' = "pending"
    /\ tools_offered' \in BOOLEAN
    /\ wrote_in_session' = FALSE
    /\ context_saved' = FALSE
    /\ last_turn' = NoTurn
    /\ UNCHANGED <<webhookVars, permVars, reviewVars, aggVars, rateVars, chatVars>>

\* the loop test and, when it passes, the call of the model
CallModel ==
    /\ pc = "loop"
    /\ IF LoopGuard(current_turn)
       THEN /\ current_turn' = current_turn + 1
            /\ llm_calls' = llm_calls + 1
            /\ \E response \in {"exception", "empty", "message"} :
                 CASE response = "exception" ->
                        /\ pc' = "done"
                        /\ result' = "error_message"
                        /\ last_role' = last_role
                   [] response = "empty" ->
                        /\ pc' = "done"
                        /\ result' = ReturnAfterLoop(last_role)
                        /\ last_role' = last_role
                   [] response = "message" ->
                        /\ pc' = "process"
                        /\ result' = result
                        /\ last_role' = "assistant"
       ELSE /\ pc' = "done"
            /\ result' = ReturnAfterLoop(last_role)
            /\ UNCHANGED <<current_turn, llm_calls, last_role>>
    /\ context_saved' = (pc' = "done")     \* handle_qq_message: save_context
    /\ UNCHANGED <<tools_offered, wrote_in_session, last_turn>>
    /\ UNCHANGED <<webhookVars, permVars, reviewVars, aggVars, rateVars, chatVars>>

\* the outcome of one turn once process_ai_response has returned
TurnOutcome(process_result) ==
    IF has_write_operation(process_result) THEN "empty_reply"
    ELSE IF process_result.conversation_ended THEN "cleaned_response"
    ELSE IF ~process_result.has_tool_calls \/ ~process_result.has_tool_results
    THEN (IF process_result.should_send_response THEN "cleaned_response" ELSE "empty_reply")
    ELSE "continue"

\* process_ai_response and the tests that follow it
ProcessResponse ==
    /\ pc = "process"
    /\ \/ /\ pc' = "done"                  \* process_ai_response raised
          /\ result' = "error_message"
          /\ last_role' = last_role
          /\ wrote_in_session' = wrote_in_session
          /\ last_turn' = last_turn
       \/ \E process_result \in ProcessResults, calls \in ResponseCalls :
            LET tool_calls == IF process_result.conversation_ended THEN <<>>
                              ELSE parse_bracket_tool_calls(calls)
            IN
            /\ process_result.has_tool_calls = (tool_calls # <<>>)
            /\ last_turn' = [written |-> Len(calls),
                             tool_calls |-> Len(tool_calls),
                             tool_results |-> IF process_result.has_tool_results
                                              THEN Len(tool_calls) ELSE 0,
                             continued |-> TurnOutcome(process_result) = "continue"]
            /\ wrote_in_session' = (wrote_in_session \/ process_result.wrote)
            /\ IF TurnOutcome(process_result) = "continue"
               THEN /\ pc' = "loop"
                    /\ last_role' = "user"    \* the tool results are appended
                    /\ result' = result
               ELSE /\ pc' = "done"
                    /\ result' = TurnOutcome(process_result)
                    /\ last_role' = last_role
    /\ context_saved' = (pc' = "done")     \* handle_qq_message: save_context
    /\ UNCHANGED <<current_turn, llm_calls, tools_offered>>
    /\ UNCHANGED <<webhookVars, permVars, reviewVars, aggVars, rateVars, chatVars>>

InitLoop ==
    /\ pc = "idle"
    /\ current_turn = 0
    /\ llm_calls = 0
    /\ last_role = "user"
    /\ result = "pending"
    /\ tools_offered = FALSE
    /\ wrote_in_session = FALSE
    /\ context_saved = FALSE
    /\ last_turn = NoTurn

NextLoop == StartSession \/ CallModel \/ ProcessResponse

(***************************************************************************)
(* PR review controller (_handle_review_request / _perform_ai_review)      *)
(***************************************************************************)
review_cache_max_size == 100
MaxLiveTasks == 2

\* the review keys "repo#pr_number" that are followed one by one; the other
\* pull requests under review are counted in other_active
ReviewKeys == {"o/r#1", "o/r#2"}

\* len(self.active_reviews)
ActiveReviewsSize(tracked, others) == Cardinality(tracked) + others

\* mutant: the request is removed without a comment
no_comment(ai_handler_available, mcp_ready) == "none"

\* the comment _handle_review_request hands to _remove_review_and_comment
refusal_comment(ai_handler_available, mcp_ready) ==
    IF ~ai_handler_available THEN "review_not_allowed"
    ELSE IF ~mcp_ready THEN "tools_unavailable"
    ELSE "none"

\* _handle_review_request for a tracked pull request.  review_enabled covers
\* the early returns (no processor, no configuration, review not allowed, no
\* bot_username, no pr_number).
HandleReviewRequest ==
    \E review_key \in ReviewKeys, action \in {"review_requested", "review_request_removed"},
       review_enabled \in BOOLEAN, bot_requested \in BOOLEAN,
       ai_handler_available \in BOOLEAN, mcp_ready \in BOOLEAN :
        LET outcome ==
                IF ~review_enabled THEN "returned_early"
                ELSE IF action # "review_requested" \/ ~bot_requested THEN "ignored"
                ELSE IF review_key \in active_reviews THEN "skipped_duplicate"
                ELSE IF ~ai_handler_available \/ ~mcp_ready THEN "request_removed"
                ELSE "started"
        IN  /\ outcome = "started" => live[review_key] < MaxLiveTasks
            /\ last_review' = [review_key |-> review_key, outcome |-> outcome,
                               comment |-> IF outcome = "request_removed"
                                           THEN refusal_comment(ai_handler_available, mcp_ready)
                                           ELSE "none"]
            /\ IF outcome # "started"
               THEN UNCHANGED <<active_reviews, other_active, live, last_evict>>
               ELSE /\ live' = [live EXCEPT ![review_key] = @ + 1]
                    /\ IF ActiveReviewsSize(active_reviews \cup {review_key}, other_active)
                              <= review_cache_max_size
                       THEN /\ active_reviews' = active_reviews \cup {review_key}
                            /\ other_active' = other_active
                            /\ last_evict' = last_evict
                       ELSE \* self.active_reviews.pop(): an arbitrary element goes
                            \/ \E evicted \in active_reviews \cup {review_key} :
                                 /\ active_reviews' = (active_reviews \cup {review_key}) \ {evicted}
                                 /\ other_active' = other_active
                                 /\ last_evict' = [inserted |-> review_key, evicted |-> evicted]
                            \/ /\ other_active > 0
                               /\ active_reviews' = active_reviews \cup {review_key}
                               /\ other_active' = other_active - 1
                               /\ last_evict' = [inserted |-> review_key, evicted |-> "other"]
            /\ UNCHANGED <<task, review_request, pr_reviews, last_finish>>
            /\ UNCHANGED <<webhookVars, permVars, loopVars, aggVars, rateVars, chatVars>>

\* _handle_review_request that starts the review of another pull request
\* (one that is not under review)
HandleOtherReviewRequest ==
    /\ other_active < review_cache_max_size
    /\ IF ActiveReviewsSize(active_reviews, other_active + 1) <= review_cache_max_size
       THEN /\ other_active' = other_active + 1
            /\ active_reviews' = active_reviews
            /\ last_evict' = last_evict
       ELSE \/ \E evicted \in active_reviews :
                 /\ active_reviews' = active_reviews \ {evicted}
                 /\ other_active' = other_active + 1
                 /\ last_evict' = [inserted |-> "other", evicted |-> evicted]
            \/ /\ other_active' = other_active
               /\ active_reviews' = active_reviews
               /\ last_evict' = [inserted |-> "other", evicted |-> "other"]
    /\ UNCHANGED <<live, last_review>>
    /\ UNCHANGED <<task, review_request, pr_reviews, last_finish>>
    /\ UNCHANGED <<webhookVars, permVars, loopVars, aggVars, rateVars, chatVars>>

\* _perform_ai_review of a tracked key ends (on any path): finally discards the key
FinishReview ==
    /\ \E review_key \in ReviewKeys :
        /\ live[review_key] > 0
        /\ live' = [live EXCEPT ![review_key] = @ - 1]
        /\ active_reviews' = active_reviews \ {review_key}
    /\ UNCHANGED <<other_active, last_review, last_evict>>
    /\ UNCHANGED <<task, review_request, pr_reviews, last_finish>>
    /\ UNCHANGED <<webhookVars, permVars, loopVars, aggVars, rateVars, chatVars>>

\* _perform_ai_review of another pull request ends while its key is in the set
FinishOtherReview ==
    /\ other_active > 0
    /\ other_active' = other_active - 1
    /\ UNCHANGED <<active_reviews, live, last_review, last_evict>>
    /\ UNCHANGED <<task, review_request, pr_reviews, last_finish>>
    /\ UNCHANGED <<webhookVars, permVars, loopVars, aggVars, rateVars, chatVars>>

(***************************************************************************)
(* One review task followed through _perform_ai_review                     *)
(***************************************************************************)
MaxPriorReviews == 2

\* the pull request whose review task is followed to its end
TaskKey == "o/r#3"

ScoreValues == {0, 89, 90, 100}

\* what review_code_changes returns: ReviewResult.to_dict(), or the dict of
\* its except branch, whose summary starts with "审查异常"
ReviewResultKinds == {"dict"}

ReviewResults ==
    [kind : ReviewResultKinds, approved : BOOLEAN, overall_score : ScoreValues,
     summary : {"text", "error"}]

NoResult == [kind |-> "none", approved |-> FALSE, overall_score |-> 0, summary |-> "none"]

\* `approved and score >= 90` of submit_ai_review
ReviewEvent(approved, score) ==
    IF approved /\ score >= 90 THEN "APPROVE" ELSE "COMMENT"

\* _create_line_comments reads review_result.comments: an attribute, which a
\* dict does not have
HasCommentsAttribute(review_result) == review_result.kind = "object"

\* GitHubEventProcessor.submit_ai_review: the event handed to create_pr_review
\* ("none" when create_pr_review is not reached) and the value returned
submit_ai_review(review_result, client_available, create_ok) ==
    IF ~client_available THEN [event |-> "none", success |-> FALSE]
    ELSE IF ~HasCommentsAttribute(review_result)
    THEN [event |-> "none", success |-> FALSE]      \* AttributeError, caught
    ELSE [event |-> ReviewEvent(review_result.approved, review_result.overall_score),
          success |-> create_ok]

\* the path _perform_ai_review takes
ReviewPath(cancelled, api_client_available, raised, pr_files, review_result, create_ok) ==
    IF cancelled THEN "cancelled"
    ELSE IF ~api_client_available THEN "api_client_unavailable"
    ELSE IF raised THEN "exception"
    ELSE IF ~pr_files THEN "no_pr_files"
    ELSE IF review_result = NoResult THEN "no_result"
    ELSE IF review_result.summary = "error" THEN "error_result"
    ELSE IF submit_ai_review(review_result, api_client_available, create_ok).success
    THEN "submitted"
    ELSE "submit_failed"

\* the paths that reach `await self.github_processor.submit_ai_review(...)`
SubmitPaths == {"submitted", "submit_failed"}

\* the paths on which _remove_review_and_comment runs (it hides the outdated
\* reviews, comments and removes the review request); three of them call
\* remove_review_request once more
RemovalPaths == {"no_pr_files", "error_result", "submit_failed", "no_result", "exception"}

\* _handle_review_request found the bot among the requested reviewers of the
\* followed PR, added its key and created the task
StartReviewTask ==
    /\ task = "none"
    /\ TaskKey \notin active_reviews
    /\ task' = "running"
    /\ active_reviews' = active_reviews \cup {TaskKey}
    /\ review_request' = TRUE
    /\ \E prior \in 0..MaxPriorReviews : pr_reviews' = prior
    /\ last_review' = [review_key |-> TaskKey, outcome |-> "started", comment |-> "none"]
    /\ UNCHANGED <<other_active, live, last_evict, last_finish>>
    /\ UNCHANGED <<webhookVars, permVars, loopVars, aggVars, rateVars, chatVars>>

\* _handle_review_request found the bot among the requested reviewers of the
\* followed PR while the AI handler or its tools are not ready:
\* _remove_review_and_comment hides the old reviews, writes the comment and
\* removes the review request (the calls to the code host succeed)
RefuseReviewRequest ==
    /\ TaskKey \notin active_reviews
    /\ \E ai_handler_available \in BOOLEAN, mcp_ready \in BOOLEAN :
        /\ ~(ai_handler_available /\ mcp_ready)
        /\ last_review' = [review_key |-> TaskKey, outcome |-> "request_removed",
                           comment |-> refusal_comment(ai_handler_available, mcp_ready)]
    /\ pr_reviews' = 0
    /\ review_request' = FALSE
    /\ UNCHANGED <<active_reviews, task, other_active, live, last_evict, last_finish>>
    /\ UNCHANGED <<webhookVars, permVars, loopVars, aggVars, rateVars, chatVars>>

\* _perform_ai_review of the followed PR, from its start to its finally
PerformAIReview ==
    /\ task = "running"
    /\ \E cancelled \in BOOLEAN, api_client_available \in BOOLEAN, raised \in BOOLEAN,
          pr_files \in BOOLEAN, review_result \in ReviewResults \cup {NoResult},
          create_ok \in BOOLEAN :
        LET path == ReviewPath(cancelled, api_client_available, raised, pr_files,
                               review_result, create_ok)
            submitted == submit_ai_review(review_result, api_client_available, create_ok)
        IN  /\ last_finish' =
                  [path |-> path,
                   result |-> IF path \in SubmitPaths THEN review_result ELSE NoResult,
                   review_event |-> IF path \in SubmitPaths THEN submitted.event ELSE "none",
                   visible_at_submit |-> IF path \in SubmitPaths THEN pr_reviews ELSE 0]
            /\ pr_reviews' =
                  IF path \in RemovalPaths THEN 0
                  ELSE IF path = "submitted" /\ submitted.event = "COMMENT"
                  THEN pr_reviews + 1
                  ELSE pr_reviews
            /\ review_request' =
                  IF path \in RemovalPaths \/ path = "submitted" THEN FALSE
                  ELSE review_request
    /\ task' = "none"
    /\ active_reviews' = active_reviews \ {TaskKey}       \* finally
    /\ UNCHANGED <<other_active, live, last_review, last_evict>>
    /\ UNCHANGED <<webhookVars, permVars, loopVars, aggVars, rateVars, chatVars>>

InitReview ==
    /\ task = "none"
    /\ review_request = FALSE
    /\ pr_reviews = 0
    /\ last_finish = [path |-> "none", result |-> NoResult, review_event |-> "none",
                      visible_at_submit |-> 0]
    /\ active_reviews = {}
    /\ other_active = 0
    /\ live = [k \in ReviewKeys |-> 0]
    /\ last_review = [review_key |-> None, outcome |-> "none", comment |-> "none"]
    /\ last_evict = [inserted |-> None, evicted |-> None]

NextReview ==
    HandleReviewRequest \/ HandleOtherReviewRequest \/ FinishReview \/ FinishOtherReview

NextReviewTask == StartReviewTask \/ RefuseReviewRequest \/ PerformAIReview

(***************************************************************************)
(* Notification aggregator and mute (MessageAggregator)                    *)
(***************************************************************************)
MaxRequests == 3
MaxAggTicks == 5

\* config.get("aggregation_delay", self.default_delay): the configured delay
aggregation_delay == 2
max_messages_per_group == 10

\* aggregation_key = "<platform>_<target_id>"; the group's target is that target
AggregationKeys == {"qq_1"}

\* the mute command: set_mute(duration_minutes)
MuteMinutes == {1}
AggTickSteps == {1, 60}

NoGroup == [present |-> FALSE, messages |-> <<>>, timer |-> 0]

\* mutant: the mute state is never seen
is_muted_never(current_time, until) == FALSE

\* is_muted: time.time() < self.mute_until
is_muted(current_time, until) == current_time < until

\* group.messages[-max_messages_per_group:]
KeepNewest(messages) ==
    IF Len(messages) > max_messages_per_group
    THEN SubSeq(messages, Len(messages) - max_messages_per_group + 1, Len(messages))
    ELSE messages

\* mutant: the new message is put in front of the group's messages
insert_first(messages, message_id) == <<message_id>> \o messages

\* group.messages.append(pending_msg)
append_message(messages, message_id) == Append(messages, message_id)

\* group.timer.is_alive(): started and neither fired nor cancelled
TimerAlive(timer_id) == \E tm \in timers : tm.id = timer_id

\* add_message.  A message is named by its position in accepted; the timer it
\* arms carries the same number.
add_message(aggregation_key) ==
    IF is_muted(agg_now, mute_until)
    THEN /\ drops' = drops \cup {"add"}
         /\ UNCHANGED <<aggregation_groups, timers, accepted>>
    ELSE LET message_id == Len(accepted) + 1
             group == aggregation_groups[aggregation_key]
         IN  /\ accepted' = Append(accepted, [key |-> aggregation_key, t |-> agg_now])
             /\ aggregation_groups' =
                   [aggregation_groups EXCEPT ![aggregation_key] =
                       [present |-> TRUE,
                        messages |-> KeepNewest(append_message(group.messages, message_id)),
                        timer |-> message_id]]
             /\ timers' = (IF group.present /\ TimerAlive(group.timer)
                            THEN {tm \in timers : tm.id # group.timer}   \* group.timer.cancel()
                            ELSE timers)
                          \cup {[id |-> message_id, key |-> aggregation_key,
                                 due |-> agg_now + aggregation_delay]}
             /\ drops' = drops

\* process_message_request with the aggregator available: one add per target
ProcessMessageRequest ==
    /\ requests < MaxRequests
    /\ requests' = requests + 1
    /\ \E aggregation_key \in AggregationKeys : add_message(aggregation_key)
    /\ UNCHANGED <<agg_now, agg_ticks, mute_until, pending, in_flight, sends>>
    /\ UNCHANGED <<webhookVars, permVars, loopVars, reviewVars, rateVars, chatVars>>

\* _process_message_request_direct (the fallback of process_message_request)
ProcessMessageRequestDirect ==
    /\ requests < MaxRequests
    /\ requests' = requests + 1
    /\ \E aggregation_key \in AggregationKeys :
        IF is_muted(agg_now, mute_until)
        THEN /\ drops' = drops \cup {"direct"}
             /\ sends' = sends
        ELSE /\ sends' = Append(sends, [path |-> "direct", key |-> aggregation_key,
                                        messages |-> <<>>, t |-> agg_now,
                                        mute_until |-> mute_until])
             /\ drops' = drops
    /\ UNCHANGED <<agg_now, agg_ticks, mute_until, aggregation_groups, timers, pending, in_flight, accepted>>
    /\ UNCHANGED <<webhookVars, permVars, loopVars, reviewVars, rateVars, chatVars>>

\* timer_callback: the timer thread hands _send_aggregated_messages to the loop
TimerFire ==
    /\ \E tm \in timers :
        /\ tm.due <= agg_now
        /\ timers' = timers \ {tm}
        /\ pending' = [pending EXCEPT ![tm.key] = @ + 1]
    /\ UNCHANGED <<agg_now, agg_ticks, mute_until, aggregation_groups, in_flight,
                   requests, accepted, sends, drops>>
    /\ UNCHANGED <<webhookVars, permVars, loopVars, reviewVars, rateVars, chatVars>>

\* _send_aggregated_messages up to its first send: under mute it returns, else
\* it takes the messages and deletes the group under the lock and hands the
\* bundle to the targets
SendAggregatedMessages ==
    /\ \E aggregation_key \in AggregationKeys :
        /\ pending[aggregation_key] > 0
        /\ pending' = [pending EXCEPT ![aggregation_key] = @ - 1]
        /\ LET group == aggregation_groups[aggregation_key] IN
           IF is_muted(agg_now, mute_until)
           THEN /\ drops' = drops \cup {"drain"}
                /\ UNCHANGED <<aggregation_groups, sends, in_flight>>
           ELSE IF ~group.present
           THEN UNCHANGED <<aggregation_groups, sends, drops, in_flight>>
           ELSE /\ aggregation_groups' = [aggregation_groups EXCEPT ![aggregation_key] = NoGroup]
                /\ sends' = IF group.messages = <<>> THEN sends
                            ELSE Append(sends, [path |-> "drain", key |-> aggregation_key,
                                                messages |-> group.messages, t |-> agg_now,
                                                mute_until |-> mute_until])
                /\ in_flight' = IF group.messages = <<>> THEN in_flight
                                ELSE [in_flight EXCEPT ![aggregation_key] = @ + 1]
                /\ drops' = drops
    /\ UNCHANGED <<agg_now, agg_ticks, mute_until, timers, requests, accepted>>
    /\ UNCHANGED <<webhookVars, permVars, loopVars, reviewVars, rateVars, chatVars>>

\* _send_aggregated_messages after its sends: the awaited sends to the targets
\* have returned and the coroutine ends
SendAggregatedMessagesDone ==
    /\ \E aggregation_key \in AggregationKeys :
        /\ in_flight[aggregation_key] > 0
        /\ in_flight' = [in_flight EXCEPT ![aggregation_key] = @ - 1]
    /\ UNCHANGED <<agg_now, agg_ticks, mute_until, aggregation_groups, timers, pending,
                   requests, accepted, sends, drops>>
    /\ UNCHANGED <<webhookVars, permVars, loopVars, reviewVars, rateVars, chatVars>>

\* the mute command of the chat side
SetMute ==
    /\ \E duration_minutes \in MuteMinutes :
        mute_until' = agg_now + duration_minutes * 60
    /\ UNCHANGED <<agg_now, agg_ticks, aggregation_groups, timers, pending, in_flight, requests,
                   accepted, sends, drops>>
    /\ UNCHANGED <<webhookVars, permVars, loopVars, reviewVars, rateVars, chatVars>>

\* time passes, up to the next timer that is due; scheduled coroutines run first
AggTick ==
    /\ agg_ticks < MaxAggTicks
    /\ \A k \in AggregationKeys : pending[k] = 0
    /\ \E dt \in AggTickSteps :
        /\ \A tm \in timers : agg_now + dt <= tm.due
        /\ agg_now' = agg_now + dt
    /\ agg_ticks' = agg_ticks + 1
    /\ UNCHANGED <<mute_until, aggregation_groups, timers, pending, in_flight, requests,
                   accepted, sends, drops>>
    /\ UNCHANGED <<webhookVars, permVars, loopVars, reviewVars, rateVars, chatVars>>

InitAgg ==
    /\ agg_now = 0
    /\ agg_ticks = 0
    /\ mute_until = 0
    /\ aggregation_groups = [k \in AggregationKeys |-> NoGroup]
    /\ timers = {}
    /\ pending = [k \in AggregationKeys |-> 0]
    /\ in_flight = [k \in AggregationKeys |-> 0]
    /\ requests = 0
    /\ accepted = <<>>
    /\ sends = <<>>
    /\ drops = {}

NextAgg ==
    \/ ProcessMessageRequest
    \/ ProcessMessageRequestDirect
    \/ TimerFire
    \/ SendAggregatedMessages
    \/ SendAggregatedMessagesDone
    \/ SetMute
    \/ AggTick

(***************************************************************************)
(* Rate limiter of the chat sender (QQMessageSender._check_rate_limit)     *)
(***************************************************************************)
MaxSendAttempts == 17
MaxRateTicks == 2

\* the limit and the window of _check_rate_limit
rate_limit_max == 15
rate_limit_window == 60

\* group id of the send target that is followed through its windows
RateTargets == {"g1"}
RateTickSteps == {1, rate_limit_window - 1, rate_limit_window}

\* the timestamps _check_rate_limit keeps: those younger than the window
recent_timestamps(timestamps, current_time) ==
    SelectSeq(timestamps, LAMBDA timestamp : current_time - timestamp < rate_limit_window)

\* mutant: the limit is tested one entry late
rate_limit_exceeded(timestamps) == Len(timestamps) > rate_limit_max

\* the test of _check_rate_limit after the old timestamps are dropped
rate_limit_reached(timestamps) == Len(timestamps) >= rate_limit_max

\* _check_rate_limit: the list of the target after the call
check_rate_limit_list(group_id) ==
    LET kept == recent_timestamps(rate_limiter[group_id], rate_now) IN
    IF rate_limit_reached(kept) THEN kept ELSE Append(kept, rate_now)

\* _check_rate_limit: the value returned
check_rate_limit(group_id) ==
    ~rate_limit_reached(recent_timestamps(rate_limiter[group_id], rate_now))

\* the common course of send_group_message and send_aggregated_messages for a
\* target with a group id while the bot is connected: the rate limit is
\* checked first, then the forward message is handed to the platform
SendTo(group_id, via) ==
    /\ send_attempts < MaxSendAttempts
    /\ send_attempts' = send_attempts + 1
    /\ rate_limiter' = [rate_limiter EXCEPT ![group_id] = check_rate_limit_list(group_id)]
    /\ sent_at' = IF check_rate_limit(group_id)
                  THEN [sent_at EXCEPT ![group_id] = Append(@, rate_now)]
                  ELSE sent_at
    /\ last_send' = [target |-> group_id, via |-> via,
                     outcome |-> IF check_rate_limit(group_id) THEN "sent"
                                 ELSE "rate_limited",
                     transmitted |-> sent_at' # sent_at]
    /\ UNCHANGED <<rate_now, rate_ticks>>
    /\ UNCHANGED <<webhookVars, permVars, loopVars, reviewVars, aggVars, chatVars>>

\* send_aggregated_messages with a non-empty bundle
QQSendAggregatedMessages ==
    \E group_id \in RateTargets : SendTo(group_id, "send_aggregated_messages")

\* send_group_message
QQSendGroupMessage ==
    \E group_id \in RateTargets : SendTo(group_id, "send_group_message")

\* time passes
RateTick ==
    /\ rate_ticks < MaxRateTicks
    /\ \E dt \in RateTickSteps : rate_now' = rate_now + dt
    /\ rate_ticks' = rate_ticks + 1
    /\ UNCHANGED <<rate_limiter, send_attempts, sent_at, last_send>>
    /\ UNCHANGED <<webhookVars, permVars, loopVars, reviewVars, aggVars, chatVars>>

InitRate ==
    /\ rate_limiter = [g \in RateTargets |-> <<>>]
    /\ rate_now = 0
    /\ rate_ticks = 0
    /\ send_attempts = 0
    /\ sent_at = [g \in RateTargets |-> <<>>]
    /\ last_send = [target |-> None, via |-> None, outcome |-> "none", transmitted |-> FALSE]

NextRate == QQSendAggregatedMessages \/ QQSendGroupMessage \/ RateTick


(***************************************************************************)
(* Validation of a tool call against the registry                          *)
(***************************************************************************)

\* the entry of get_issue in the registry; no other name below is registered
RegisteredTools == {"get_issue"}
CalledTools == {"get_issue", "delete_repository"}

get_tool_config(tool_name) ==
    [owner        |-> [type |-> "string",  required |-> TRUE],
     repo         |-> [type |-> "string",  required |-> TRUE],
     issue_number |-> [type |-> "integer", required |-> TRUE]]

\* the parameters a call can carry, and their values as parsed from the text
ParameterNames == {"owner", "repo", "issue_number", "token", "page"}
ParameterValues == {"text", "7"}
ParameterSets ==
    UNION {[names -> ParameterValues] : names \in SUBSET ParameterNames}

\* int(value) raises ValueError unless the text is a number
int_raises(param_value) == param_value # "7"
int(param_value) == 7

\* MCPCapabilities.validate_parameters: the error it raises ("none" when it
\* returns) and the dict it returns
validate_parameters(tool_name, parameters) ==
    IF tool_name \notin RegisteredTools
    THEN [error |-> "unknown_tool", validated |-> <<>>]
    ELSE LET param_config == get_tool_config(tool_name)
             missing_required ==
                 {param_name \in DOMAIN param_config :
                      param_config[param_name].required /\ param_name \notin DOMAIN parameters}
             present == DOMAIN param_config \cap DOMAIN parameters
             type_errors ==
                 {param_name \in present :
                      param_config[param_name].type = "integer" /\ int_raises(parameters[param_name])}
         IN  IF missing_required # {}
             THEN [error |-> "missing_required", validated |-> <<>>]
             ELSE IF type_errors # {}
             THEN [error |-> "type_error", validated |-> <<>>]
             ELSE [error |-> "none",
                   validated |-> [param_name \in present |->
                                     IF param_config[param_name].type = "integer"
                                     THEN int(parameters[param_name])
                                     ELSE parameters[param_name]]]

\* MCPTools.call_tool on one parsed call: the validation, then the tool with
\* the validated parameters, or a failed result
ValidateToolCall ==
    /\ \E tool_name \in CalledTools, parameters \in ParameterSets :
         LET outcome == validate_parameters(tool_name, parameters)
         IN  last_validate' = [tool_name |-> tool_name,
                               parameters |-> parameters,
                               error |-> outcome.error,
                               executed |-> outcome.error = "none",
                               executed_with |-> outcome.validated]
    /\ UNCHANGED <<limiterVars, contextVars, handlerVars>>
    /\ UNCHANGED <<webhookVars, permVars, loopVars, reviewVars, aggVars, rateVars>>

InitValidate ==
    /\ last_validate = [tool_name |-> "none", parameters |-> <<>>, error |-> "none",
                        executed |-> FALSE, executed_with |-> <<>>]

(***************************************************************************)
(* The limiter of the chat handler                                         *)
(***************************************************************************)

MaxChecks == 51
MaxChatTicks == 1
ChatTickSteps == {60, 3600}

\* RateLimiter.global_limits
requests_per_hour == 100
requests_per_minute == 10
ai_calls_per_hour == 50
tool_calls_per_hour == 30
global_limits ==
    [requests_per_hour |-> requests_per_hour,
     requests_per_minute |-> requests_per_minute,
     ai_calls_per_hour |-> ai_calls_per_hour,
     tool_calls_per_hour |-> tool_calls_per_hour]

\* the operation types the handler passes to check_rate_limit
OperationTypes == {"request", "ai_call"}

\* f"{operation_type}s_per_hour"
limit_key(operation_type) ==
    CASE operation_type = "request" -> "requests_per_hour"
      [] operation_type = "ai_call" -> "ai_calls_per_hour"
      [] operation_type = "tool_call" -> "tool_calls_per_hour"

\* a chat-user the limiter has not seen yet
NoLimit == [request_count |-> 0, window_start |-> NoTime, blocked_until |-> NoTime]

\* RateLimitInfo(user_id=user_id)
RateLimitInfo(t) == [request_count |-> 0, window_start |-> t, blocked_until |-> NoTime]

\* RateLimitInfo.is_blocked
is_blocked(user_limit, t) ==
    user_limit.blocked_until # NoTime /\ t < user_limit.blocked_until

\* RateLimitInfo.reset_if_needed
reset_if_needed(user_limit, t, window_seconds) ==
    IF t - user_limit.window_start >= window_seconds
    THEN [user_limit EXCEPT !.request_count = 0, !.window_start = t]
    ELSE user_limit

\* RateLimiter.check_rate_limit: the result and the RateLimitInfo it leaves
limiter_check_rate_limit(limits, user_id, operation_type, t) ==
    LET user_limit == IF limits[user_id] = NoLimit THEN RateLimitInfo(t) ELSE limits[user_id]
        reset == reset_if_needed(user_limit, t, 3600)
        max_requests == global_limits[limit_key(operation_type)]
    IN  IF is_blocked(user_limit, t)
        THEN [ok |-> FALSE, user_limit |-> user_limit, reset |-> FALSE]
        ELSE IF reset.request_count >= max_requests
        THEN [ok |-> FALSE, user_limit |-> [reset EXCEPT !.blocked_until = t + 3600],
              reset |-> reset # user_limit]
        ELSE [ok |-> TRUE, user_limit |-> [reset EXCEPT !.request_count = @ + 1],
              reset |-> reset # user_limit]

\* the limiter and its history as one value
limiter_now ==
    [user_limits |-> user_limits, limiter_checks |-> limiter_checks, granted |-> granted,
     granted_now |-> granted_now, last_check |-> last_check]

\* one call of check_rate_limit with its bookkeeping
after_check(limiter, user_id, operation_type, t) ==
    LET check == limiter_check_rate_limit(limiter.user_limits, user_id, operation_type, t)
    IN  [user_limits |-> [limiter.user_limits EXCEPT ![user_id] = check.user_limit],
         limiter_checks |-> limiter.limiter_checks + 1,
         granted |-> [limiter.granted EXCEPT ![user_id] =
                         [op \in DOMAIN @ |->
                             (IF check.reset THEN 0 ELSE @[op])
                             + (IF check.ok /\ op = operation_type THEN 1 ELSE 0)]],
         granted_now |-> [limiter.granted_now EXCEPT ![user_id] = @ + (IF check.ok THEN 1 ELSE 0)],
         last_check |-> [user_id |-> user_id, operation_type |-> operation_type,
                         ok |-> check.ok]]

SetLimiter(limiter) ==
    /\ user_limits' = limiter.user_limits
    /\ limiter_checks' = limiter.limiter_checks
    /\ granted' = limiter.granted
    /\ granted_now' = limiter.granted_now
    /\ last_check' = limiter.last_check

LimitedUsers == {"u1"}

CheckRateLimit ==
    /\ limiter_checks < MaxChecks
    /\ \E user_id \in LimitedUsers, operation_type \in OperationTypes :
         SetLimiter(after_check(limiter_now, user_id, operation_type, chat_now))
    /\ UNCHANGED <<chat_now, chat_ticks>>
    /\ UNCHANGED <<validateVars, contextVars, handlerVars>>
    /\ UNCHANGED <<webhookVars, permVars, loopVars, reviewVars, aggVars, rateVars>>

ChatTick ==
    /\ chat_ticks < MaxChatTicks
    /\ \E step \in ChatTickSteps : chat_now' = chat_now + step
    /\ chat_ticks' = chat_ticks + 1
    /\ granted_now' = [q \in QQUsers |-> 0]
    /\ UNCHANGED <<user_limits, limiter_checks, granted, last_check>>
    /\ UNCHANGED <<validateVars, contextVars, handlerVars>>
    /\ UNCHANGED <<webhookVars, permVars, loopVars, reviewVars, aggVars, rateVars>>

InitLimiter ==
    /\ user_limits = [q \in QQUsers |-> NoLimit]
    /\ chat_now = 0
    /\ chat_ticks = 0
    /\ limiter_checks = 0
    /\ granted = [q \in QQUsers |-> [op \in OperationTypes |-> 0]]
    /\ granted_now = [q \in QQUsers |-> 0]
    /\ last_check = [user_id |-> None, operation_type |-> "none", ok |-> TRUE]

(***************************************************************************)
(* The conversation context                                                *)
(***************************************************************************)

max_messages == 100
MaxAppends == 102
MaxFreeRoles == 3
Roles == {"user", "assistant", "system"}

\* message ids are texts: a prefix and digits; NoId is None
NoId == [prefix |-> "None", digits |-> 0]
\* str(recalled_message_id) of a platform message id
str(n) == [prefix |-> "", digits |-> n]
\* f"qq_{int(time.time() * 1000)}"
generated_message_id(t) == [prefix |-> "qq_", digits |-> t * 1000]

\* Message(role=..., message_id=..., metadata=...); a key the metadata does
\* not hold reads as None
Message(n, role, message_id, reply_to_message_id) ==
    [id |-> n, role |-> role, message_id |-> message_id,
     metadata |-> [message_id |-> NoId, reply_to_message_id |-> reply_to_message_id]]

\* ConversationContext.add_message
context_add_message(msgs, message) ==
    LET appended == Append(msgs, message)
    IN  IF Len(appended) > max_messages
        THEN LET first_five == SubSeq(appended, 1, IF Len(appended) < 5 THEN Len(appended) ELSE 5)
                 system_messages == SelectSeq(first_five, LAMBDA msg : msg.role = "system")
                 keep == max_messages - Len(system_messages)
                 recent_messages ==
                     IF keep = 0 THEN appended
                     ELSE SubSeq(appended, Len(appended) - keep + 1, Len(appended))
             IN  system_messages \o recent_messages
        ELSE appended

\* one append to the context; the role is free for the first messages only
AddMessage ==
    /\ appends < MaxAppends
    /\ \E role \in (IF appends < MaxFreeRoles THEN Roles ELSE {"user"}) :
         conv_messages' = context_add_message(conv_messages, Message(appends + 1, role, NoId, NoId))
    /\ appends' = appends + 1
    /\ UNCHANGED <<validateVars, limiterVars, handlerVars>>
    /\ UNCHANGED <<webhookVars, permVars, loopVars, reviewVars, aggVars, rateVars>>

InitContext ==
    /\ conv_messages = <<>>
    /\ appends = 0

(***************************************************************************)
(* The chat handler                                                        *)
(***************************************************************************)

MaxChatChecks == 53
max_message_length == 4000
ContentLengths == {0, 1, 4000, 4001}

\* no recall since the last chat message
NoRecall == [recalled_message_id |-> 0, operator_id |-> None, removed |-> {},
             present |-> FALSE, returned |-> FALSE]

\* the chat-user whose private context is conv_messages
ContextOwner == "su"

\* mutant: no message is too long
never_too_long(content_length) == FALSE

\* len(content) > self.max_message_length
message_too_long(content_length) == content_length > max_message_length

\* QQCommandHandler.handle_ai_chat and EnhancedAIHandler.handle_qq_message on
\* one chat message: the checks, the two appends around the model call, and
\* the reply
HandleAIChat ==
    /\ limiter_checks < MaxChatChecks
    /\ \E user_id \in QQUsers, content_length \in ContentLengths :
         LET allowed == has_qq_permission(user_id, "read")
             user_message_id == generated_message_id(chat_now)
             request == after_check(limiter_now, user_id, "request", chat_now)
             ai_call == after_check(request, user_id, "ai_call", chat_now)
             user_message == Message(appends + 1, "user", user_message_id, NoId)
             ai_message == Message(appends + 2, "assistant", NoId, user_message_id)
             refusal ==
                 IF ~allowed THEN "no_permission"
                 ELSE IF content_length = 0 THEN "incomplete"
                 ELSE IF ~request.last_check.ok THEN "rate_limited"
                 ELSE IF message_too_long(content_length) THEN "too_long"
                 ELSE "none"
             rate_checked == allowed /\ content_length # 0
         IN
         /\ IF refusal = "none"
            THEN /\ SetLimiter(ai_call)
                 /\ IF user_id = ContextOwner
                    THEN /\ conv_messages' =
                               context_add_message(
                                   context_add_message(conv_messages, user_message), ai_message)
                         /\ appends' = appends + 2
                    ELSE UNCHANGED <<conv_messages, appends>>
            ELSE /\ IF rate_checked THEN SetLimiter(request) ELSE UNCHANGED <<user_limits, limiter_checks, granted, granted_now, last_check>>
                 /\ UNCHANGED <<conv_messages, appends>>
         /\ last_chat' = [user_id |-> user_id, content_length |-> content_length,
                          level |-> get_effective_qq_permission(user_id),
                          rate_refused |-> rate_checked /\ ~request.last_check.ok,
                          reply |-> IF refusal # "none" THEN refusal
                                    ELSE IF ai_call.last_check.ok THEN "ai_response"
                                    ELSE "ai_rate_limited",
                          appended |-> refusal = "none",
                          llm_invoked |-> refusal = "none" /\ ai_call.last_check.ok]
    /\ last_recall' = NoRecall
    /\ UNCHANGED <<chat_now, chat_ticks>>
    /\ UNCHANGED validateVars
    /\ UNCHANGED <<webhookVars, permVars, loopVars, reviewVars, aggVars, rateVars>>

\* the indices handle_qq_message_recall collects for the recalled id
messages_to_remove(msgs, recalled_message_id) ==
    LET hit(i) == msgs[i].metadata.message_id = str(recalled_message_id)
        reply(i) == /\ i <= Len(msgs)
                    /\ msgs[i].role = "assistant"
                    /\ msgs[i].metadata.reply_to_message_id = str(recalled_message_id)
    IN  {i \in 1..Len(msgs) : hit(i) \/ (i > 1 /\ hit(i - 1) /\ reply(i))}

\* msgs without the messages at the indices given
RECURSIVE pop_all(_, _, _)
pop_all(msgs, indices, i) ==
    IF i > Len(msgs) THEN <<>>
    ELSE (IF i \in indices THEN <<>> ELSE <<msgs[i]>>) \o pop_all(msgs, indices, i + 1)

\* the platform ids a recall can name: the platform numbers the chat messages;
\* here a chat message that was processed has the number of the user message
\* recorded for it, and the other number is of a message never recorded
RecalledIds == {n \in {appends - 1, appends + 1} : n > 0}

\* QQCommandHandler.handle_message_recall / handle_qq_message_recall
HandleMessageRecall ==
    /\ \E recalled_message_id \in RecalledIds, operator_id \in QQUsers :
         LET found == operator_id = ContextOwner /\ conv_messages # <<>>
             indices == IF found THEN messages_to_remove(conv_messages, recalled_message_id)
                        ELSE {}
         IN
         /\ conv_messages' = pop_all(conv_messages, indices, 1)
         /\ last_recall' = [recalled_message_id |-> recalled_message_id,
                            operator_id |-> operator_id,
                            removed |-> {conv_messages[i].id : i \in indices},
                            present |-> found /\ \E i \in 1..Len(conv_messages) :
                                            /\ conv_messages[i].id = recalled_message_id
                                            /\ conv_messages[i].role = "user",
                            returned |-> TRUE]
    /\ UNCHANGED <<appends, last_chat>>
    /\ UNCHANGED <<validateVars, limiterVars>>
    /\ UNCHANGED <<webhookVars, permVars, loopVars, reviewVars, aggVars, rateVars>>

InitHandler ==
    /\ last_chat = [user_id |-> None, content_length |-> 0, level |-> "none",
                    rate_refused |-> FALSE, reply |-> "none", appended |-> FALSE,
                    llm_invoked |-> FALSE]
    /\ last_recall = NoRecall

InitChat == InitValidate /\ InitLimiter /\ InitContext /\ InitHandler
(***************************************************************************)
(* Specifications                                                          *)
(***************************************************************************)
Init == InitWebhook /\ InitPerm /\ InitLoop /\ InitReview /\ InitAgg /\ InitRate /\ InitChat

NextWebhook == Submit \/ HandleSingleEvent \/ Tick

SpecWebhook == Init /\ [][NextWebhook]_vars

NextSignature == SubmitSigned \/ HandleSingleEvent

SpecSignature == Init /\ [][NextSignature]_vars

NextQueue == SubmitOtherDelivery \/ SubmitValid \/ HandleOtherEvent \/ HandleSingleEvent

SpecQueue == Init /\ [][NextQueue]_vars

NextDispatch == SubmitAllowList \/ HandleSingleEvent \/ Tick

SpecDispatch == Init /\ [][NextDispatch]_vars

NextShutdown == Submit \/ HandleSingleEvent \/ StopProcessing \/ Cleanup

\* the worker loop takes the next event as long as it runs
SpecShutdown == Init /\ [][NextShutdown]_vars /\ WF_vars(HandleSingleEvent)

NextWorker == Submit \/ HandleSingleEvent

SpecWorker == Init /\ [][NextWorker]_vars /\ WF_vars(HandleSingleEvent)

SpecPerm == Init /\ [][NextPerm]_vars

\* every await of the loop returns: the model call carries a timeout and
\* every exception is caught
SpecLoop == Init /\ [][NextLoop]_vars /\ WF_vars(CallModel) /\ WF_vars(ProcessResponse)

SpecReview == Init /\ [][NextReview]_vars

SpecReviewTask == Init /\ [][NextReviewTask]_vars

SpecAgg == Init /\ [][NextAgg]_vars

SpecRate == Init /\ [][NextRate]_vars

NextLimiter == CheckRateLimit \/ ChatTick

SpecLimiter == Init /\ [][NextLimiter]_vars

NextContext == AddMessage

SpecContext == Init /\ [][NextContext]_vars

NextChat == HandleAIChat \/ HandleMessageRecall

SpecChat == Init /\ [][NextChat]_vars

NextValidate == ValidateToolCall

SpecValidate == Init /\ [][NextValidate]_vars

Next == NextWebhook \/ NextSignature \/ NextQueue \/ NextDispatch \/ NextShutdown \/ NextWorker \/ NextPerm \/ NextLoop \/ NextReview \/ NextReviewTask \/ NextAgg \/ NextRate \/ NextValidate \/ NextLimiter \/ NextContext \/ NextChat

Spec == Init /\ [][Next]_vars

(***************************************************************************)
(* Claims about the webhook ingress                                        *)
(***************************************************************************)
\* number of queued events of one delivery
QueuedOf(delivery_id) ==
    Cardinality({i \in 1..Len(event_queue) : event_queue[i].delivery_id = delivery_id})

\* the last submission came within the cache window of an accepted (enqueued)
\* submission of the same delivery
InCacheWindow ==
    /\ last_req.outcome # "none"
    /\ last_req.prev_enqueued_at # NoTime
    /\ last_req.t - last_req.prev_enqueued_at <= cache_ttl

\* C1: once a submission of delivery d was accepted, every later submission of
\* d within the 1 h cache window returns success and is not enqueued; the
\* handlers run, and event_stats counts, once per enqueue, so two submissions
\* of one delivery in the window are handled at most once, and exactly once
\* when the queue is drained.
C1_DuplicateNotReprocessed ==
    /\ InCacheWindow =>
          /\ ReturnValue(last_req.outcome)
          /\ last_req.outcome # "enqueued"
    /\ \A d \in DeliveryIds : handled[d] + QueuedOf(d) = enqueued[d]
    /\ \A e \in supported_events :
          event_stats[e] = handled["d1"] * (IF e = "push" THEN 1 ELSE 0)
                         + handled["d2"] * (IF e = "pull_request" THEN 1 ELSE 0)

\* C1 witness: a delivery was enqueued and handled, and its resubmission later
\* in the window came back as a duplicate.
C1_Witness ==
    /\ InCacheWindow
    /\ last_req.t > last_req.prev_enqueued_at
    /\ last_req.outcome = "duplicate"
    /\ handled[last_req.delivery_id] = 1
    /\ event_stats[EventTypeOf[last_req.delivery_id]] = 1
    /\ event_queue = <<>>

\* the repository of the last submission verifies signatures against a secret
SecretConfigured(repository) ==
    /\ has_repository_config(repository)
    /\ get_repository_config(repository).enabled
    /\ get_repository_config(repository).verify_signature
    /\ get_repository_config(repository).webhook_secret # ""

\* the provided digest equals HMAC(secret, raw_body) under the algorithm the
\* prefix names
DigestMatches(signature, secret, body) ==
    /\ AlgorithmOf(signature.prefix) # None
    /\ signature.digest = HmacHexdigest(AlgorithmOf(signature.prefix), secret, body)

\* the last submission reached _verify_webhook_signature
VerificationRan == last_req.outcome \in {"enqueued", "signature_failed"}

\* C2: with a secret configured and verification enabled, verification
\* returns true iff the provided digest equals HMAC(secret, raw_body) under the
\* algorithm named by the prefix.
C2_VerifiedIffDigestMatches ==
    (VerificationRan /\ SecretConfigured(last_req.repository)) =>
        ((last_req.outcome = "enqueued") <=>
            DigestMatches(last_req.signature,
                          get_repository_config(last_req.repository).webhook_secret, RawBody))

\* C3: with a secret configured and verification enabled, a submission without
\* a signature fails verification and is not enqueued.
C3_MissingSignatureFailsClosed ==
    (VerificationRan /\ SecretConfigured(last_req.repository) /\ last_req.signature = NoSig)
        => last_req.outcome = "signature_failed"

\* C10: the delivery id is recorded only after the gate and the signature
\* check, so a valid submission is treated as a duplicate only if an earlier
\* submission of the same delivery passed both (was enqueued).
C10_DuplicateOnlyAfterPassed ==
    ( /\ last_req.outcome = "duplicate"
      /\ is_repository_enabled(last_req.repository)
      /\ verify_webhook_signature(last_req.repository, last_req.signature, RawBody) )
        => last_req.prev_enqueued_at # NoTime

(***************************************************************************)
(* Claims about the permission store and the tool permission check         *)
(***************************************************************************)
\* the write-class tools among the registered tools
WriteClassTools == {"create_issue", "create_issue_comment"}

\* C7: a write-class tool call is executed if and only if the calling
\* chat-user is SU, or has chat level WRITE, or is bound to a code-host user
\* whose level is WRITE; otherwise it is refused.
C7_WriteToolIffAuthorised ==
    ( /\ last_call.result # "none"
      /\ last_call.user_id # None
      /\ last_call.tool_name \in WriteClassTools )
        => ( (last_call.result = "executed")
               <=> ( \/ last_call.is_su
                     \/ last_call.qq_level = "write"
                     \/ last_call.github_level = "write" ) )

\* C8: a chat-user bound to a code-host user has an effective level of at
\* least READ, whatever level and binding changes were made.
C8_BoundUserAtLeastRead ==
    \A qq_id \in QQUsers :
        get_github_by_qq(qq_id) # None =>
            /\ permission_hierarchy(get_effective_qq_permission(qq_id))
                   >= permission_hierarchy("read")
            /\ has_qq_permission(qq_id, "read")

\* C8 witness: after several changes a bound user whose stored level is NONE
\* is effectively READ.
C8_Witness ==
    /\ perm_ops >= 3
    /\ get_github_by_qq("u1") = "g2"
    /\ "u1" \in github_qq_mapping["g1"]
    /\ qq_permissions["u1"] = "none"
    /\ get_effective_qq_permission("u1") = "read"

(***************************************************************************)
(* Claims about the multi-turn loop                                        *)
(***************************************************************************)
\* C9: the multi-turn loop makes at most 15 model calls, whatever the model
\* answers and the tools return, and a session that entered the loop ends.
C9_TerminatesWithinMaxTurns ==
    /\ [](llm_calls <= max_turns /\ current_turn = llm_calls)
    /\ (pc = "loop") ~> (pc = "done")

\* C9 witness: a session ended because the 15th turn still asked for tools.
C9_Witness ==
    /\ pc = "done"
    /\ llm_calls = max_turns
    /\ last_role = "user"
    /\ result = "turn_limit_message"

(***************************************************************************)
(* Claims about the review controller                                      *)
(***************************************************************************)
\* C4: for every (repo, pr) key at most one review task is live at any time.
C4_AtMostOneLiveReview ==
    \A review_key \in ReviewKeys : live[review_key] <= 1

(***************************************************************************)
(* Claims about the aggregator and mute                                    *)
(***************************************************************************)
\* the elements of a sequence
Range(seq) == {seq[i] : i \in DOMAIN seq}

\* the bundles that were sent when a timer drained a group
BundlesWith(message_id) ==
    {n \in DOMAIN sends : sends[n].path = "drain" /\ message_id \in Range(sends[n].messages)}

\* message j is the next message of the same key after message i, added
\* less than aggregation_delay after it
SameBurst(i, j) ==
    /\ i < j
    /\ accepted[i].key = accepted[j].key
    /\ \A m \in (i + 1)..(j - 1) : accepted[m].key # accepted[i].key
    /\ accepted[j].t - accepted[i].t < aggregation_delay

\* C5: the messages of one burst (each added within aggregation_delay of the
\* one before) go out in exactly one bundle: no message is sent twice, a
\* bundle that carries a message of the burst carries the burst, and no
\* empty bundle is sent.
C5_OneBundlePerBurst ==
    /\ \A n \in DOMAIN sends : sends[n].path = "drain" => sends[n].messages # <<>>
    /\ \A i \in DOMAIN accepted : Cardinality(BundlesWith(i)) <= 1
    /\ \A i, j \in DOMAIN accepted :
          SameBurst(i, j) => (BundlesWith(i) = {} \/ BundlesWith(i) = BundlesWith(j))

C11_QueueFullRejected ==
    /\ putters = <<>>
    /\ last_req.queue_full => last_req.outcome \notin {"waiting_put", "enqueued"}

\* the repository has a non-empty allow-list and the event type is outside it
OutsideAllowList(repository, event_type) ==
    /\ repository # None
    /\ get_repo_allowed_message_types(repository) # {}
    /\ event_type \notin get_repo_allowed_message_types(repository)

\* C12: an event whose type is outside the repository's non-empty allow-list
\* is dropped with success: its submission reports accepted and no handler
\* (notification, code-host automation, review request, comment reply) runs.
C12_OutsideAllowListDropped ==
    /\ ( /\ last_req.outcome \notin {"none", "invalid"}
         /\ OutsideAllowList(last_req.repository, EventTypeOf[last_req.delivery_id]) )
           => ReturnValue(last_req.outcome)
    /\ \A d \in DeliveryIds :
          OutsideAllowList(dispatched[d].repository, EventTypeOf[d])
              => dispatched[d].handlers = {}

\* the registered tools of the read class
ReadClassTools == ToolNames \cap read_operations

\* the effective level of the caller of the last call, when the call was made
EffectiveLevelAtCall ==
    IF last_call.qq_level = "none" /\ last_call.github_level # "unbound"
    THEN "read" ELSE last_call.qq_level

\* C13: a chat-user with level NONE and no binding is refused every tool,
\* read-class tools included, and a read-class tool called by a chat-user is
\* executed only at an effective level of READ or more.
C13_NoneUnboundRefused ==
    (last_call.tool_name # None /\ last_call.user_id # None) =>
        /\ (last_call.qq_level = "none" /\ last_call.github_level = "unbound")
               => last_call.result = "permission_error"
        /\ (last_call.tool_name \in ReadClassTools /\ last_call.result = "executed")
               => permission_hierarchy(EffectiveLevelAtCall) >= permission_hierarchy("read")

C13_Witness ==
    /\ last_call.user_id = "u1"
    /\ last_call.tool_name \in ReadClassTools
    /\ last_call.qq_level = "none"
    /\ last_call.github_level = "unbound"
    /\ last_call.result = "permission_error"

\* C14: the key of a review is in active_reviews while its task executes
\* and is no longer in it once a task of that key has finished, whatever the
\* path the task took.
C14_KeyHeldWhileTaskRuns ==
    /\ [](\A review_key \in ReviewKeys :
              live[review_key] > 0 => review_key \in active_reviews)
    /\ [][\A review_key \in ReviewKeys :
              live'[review_key] < live[review_key] => review_key \notin active_reviews']_vars

\* the failure paths of a review task
FailurePaths ==
    {"api_client_unavailable", "no_pr_files", "error_result", "no_result",
     "submit_failed", "exception", "cancelled"}

\* C15: once a review task has ended on a failure path, the bot's review
\* request on the pull request has been removed.
C15_RequestRemovedOnFailure ==
    (task = "none" /\ last_finish.path \in FailurePaths) => ~review_request

\* C16: when the review task hands its result to submit_ai_review, no prior
\* review by the bot in state CHANGES_REQUESTED or COMMENTED is still visible
\* on the pull request.
C16_OutdatedHiddenBeforeSubmit ==
    last_finish.path \in SubmitPaths => last_finish.visible_at_submit = 0

\* C20: a review result handed to submit_ai_review is submitted with event
\* APPROVE when it has approved = true and a score of 90 or more, and with
\* event COMMENT in every other case.
C20_ApproveIffApprovedAndHighScore ==
    last_finish.path \in SubmitPaths =>
        /\ (last_finish.result.approved /\ last_finish.result.overall_score >= 90)
               => last_finish.review_event = "APPROVE"
        /\ ~(last_finish.result.approved /\ last_finish.result.overall_score >= 90)
               => last_finish.review_event = "COMMENT"

\* C17: when a write tool was executed during a chat turn, the text returned
\* to the chat layer is empty, and the conversation context is saved.
C17_WriteOperationSilencesReply ==
    (pc = "done" /\ wrote_in_session) =>
        /\ result = "empty_reply"
        /\ context_saved

\* the bundles a timer drained for an aggregation key, as positions in sends
DrainsOf(aggregation_key) ==
    {n \in DOMAIN sends : sends[n].path = "drain" /\ sends[n].key = aggregation_key}

\* C18: within one aggregation key the messages are delivered in the order
\* they were accepted: the items of a bundle are in arrival order, and of two
\* accepted messages the earlier one is never in a later bundle.
C18_DeliveredInArrivalOrder ==
    \A aggregation_key \in AggregationKeys :
        /\ \A n \in DrainsOf(aggregation_key) :
              \A i, j \in DOMAIN sends[n].messages :
                  i < j => sends[n].messages[i] < sends[n].messages[j]
        /\ \A m, n \in DrainsOf(aggregation_key) :
              \A a \in Range(sends[m].messages), b \in Range(sends[n].messages) :
                  a < b => m <= n

C18_Witness ==
    \E m, n \in DrainsOf("qq_1") :
        /\ m < n
        /\ Len(sends[m].messages) >= 2
        /\ sends[n].messages # <<>>

\* C19: after the shutdown signal the worker drains the queue and accepts
\* nothing new: no submission made after the signal is enqueued, and every
\* event that was enqueued gets handled.
C19_DrainsAfterShutdown ==
    /\ [](last_req.outcome = "enqueued" => last_req.processing)
    /\ \A d \in DeliveryIds : (enqueued[d] > handled[d]) ~> (enqueued[d] = handled[d])

\* C21: no sequence of store operations makes a chat-user SU who is not in the
\* bootstrap SU list, and a set of the level SU is refused and stores nothing
C21_SuNotAssignable ==
    /\ \A qq_id \in QQUsers :
           get_effective_qq_permission(qq_id) = "su" => qq_id \in superusers
    /\ last_set.permission = "su" => ~last_set.returned /\ ~last_set.stored

\* an SU operator asked for the level SU for the ordinary user and was refused
C21_Witness ==
    /\ last_set.target = "u1" /\ last_set.permission = "su"
    /\ ~last_set.returned
    /\ get_qq_permission("u1") # "su"

\* C22: the dispatcher reports success for an event if and only if at least
\* one handler invoked for that event succeeded
C22_SuccessIffOneHandlerSucceeded ==
    last_dispatch.delivery_id # None =>
        (last_dispatch.success <=>
            \E handler \in DOMAIN last_dispatch.results :
                last_dispatch.results[handler])

\* an event with three handlers was reported successful although one failed
C22_Witness ==
    /\ last_dispatch.delivery_id = "d2"
    /\ last_dispatch.success
    /\ \E handler \in DOMAIN last_dispatch.results : ~last_dispatch.results[handler]

ActiveTimers(aggregation_key) == {tm \in timers : tm.key = aggregation_key}

\* C24: when mute is active at the instant the drain of key k runs, the group
\* of k is removed from the table
C24_MutedDrainRemovesGroup ==
    [][\A k \in AggregationKeys :
          (pending'[k] < pending[k] /\ is_muted(agg_now, mute_until))
              => ~aggregation_groups'[k].present]_vars

\* C25: every non-empty group in the table has exactly one pending timer or
\* is being drained
C25_GroupHasTimerOrDrain ==
    \A k \in AggregationKeys :
        (aggregation_groups[k].present /\ aggregation_groups[k].messages # <<>>)
            => \/ Cardinality(ActiveTimers(k)) = 1
               \/ pending[k] > 0

\* C26: at most one active timer exists per aggregation key at any time
C26_AtMostOneTimerPerKey ==
    \A k \in AggregationKeys : Cardinality(ActiveTimers(k)) <= 1

\* C27: at most one drain per key is sending, and a message added while a
\* drain is sending sits in a fresh group with its own timer and is not part
\* of the bundle being sent
C27_OneDrainInFlight ==
    \A k \in AggregationKeys :
        /\ in_flight[k] <= 1
        /\ (in_flight[k] > 0 /\ aggregation_groups[k].present)
               => /\ TimerAlive(aggregation_groups[k].timer) \/ pending[k] > 0
                  /\ \A i \in 1..Len(aggregation_groups[k].messages) :
                         \A j \in 1..Len(sends[Len(sends)].messages) :
                             aggregation_groups[k].messages[i] # sends[Len(sends)].messages[j]

\* C28: active_reviews never holds more than 100 keys, and the key evicted for
\* an insertion over the cap is the oldest-inserted one, so never the key
\* that was just inserted
C28_CapAndFifoEviction ==
    /\ ActiveReviewsSize(active_reviews, other_active) <= review_cache_max_size
    /\ last_evict.inserted \in ReviewKeys => last_evict.evicted # last_evict.inserted

\* C29: when a review is requested and the tool layer of the AI handler is not
\* ready, a refusal comment is posted, the bot is removed from the requested
\* reviewers, the key is not put into active_reviews and no task is spawned
C29_RefusedWhenToolsNotReady ==
    /\ []((last_review.review_key = TaskKey /\ last_review.outcome = "request_removed")
             => /\ last_review.comment \in {"tools_unavailable", "review_not_allowed"}
                /\ ~review_request
                /\ TaskKey \notin active_reviews
                /\ task = "none")
    /\ [][(last_review'.outcome = "request_removed" /\ last_review'.review_key = TaskKey)
              => (task' = task /\ active_reviews' = active_reviews)]_vars

\* the bot was still requested after a cancelled review, was requested again
\* with the tools not ready, and the request was refused
C29_Witness ==
    /\ last_review.review_key = TaskKey
    /\ last_review.outcome = "request_removed"
    /\ last_review.comment = "tools_unavailable"
    /\ last_finish.path = "cancelled"
    /\ ~review_request

\* C30: a failure while handling one event never halts the worker: the worker
\* keeps running and every event still waiting after a failed one is pulled
\* and dispatched
C30_FailureDoesNotHaltWorker ==
    /\ [](is_processing)
    /\ \A d \in DeliveryIds :
           (last_dispatch.delivery_id # None /\ ~last_dispatch.success
                /\ enqueued[d] > handled[d])
               ~> (handled[d] = enqueued[d])

\* an event was dispatched right after one whose handlers all failed
C30_Witness ==
    /\ last_dispatch.after_failure
    /\ is_processing

\* C39: after any sequence of bind, re-bind and unbind the forward map and the
\* inverse map agree: q is in inverse[g] exactly when forward[q] = g
C39_BindingMapsAgree ==
    \A qq_id \in QQUsers, github_username \in GithubUsers :
        qq_id \in github_qq_mapping[github_username]
            <=> qq_github_mapping[qq_id] = github_username

\* C40: manage_qq_permission, manage_github_permission and manage_user_binding
\* called by an operator who is not SU return failure and leave every stored
\* level and binding unchanged
C40_NonSuManageRefused ==
    (last_manage.operation # "none" /\ ~last_manage.by_su)
        => ~last_manage.returned /\ ~last_manage.changed

\* an ordinary user who was given WRITE called manage_user_binding and was refused
C40_Witness ==
    /\ last_manage.operation = "manage_user_binding"
    /\ ~last_manage.by_su
    /\ ~last_manage.returned
    /\ qq_permissions["u1"] = "write"

\* C32: when a parsed tool call fails the registry validation, the error is
\* that call's tool result, and the loop goes on with a further turn
C32_InvalidCallBecomesFailedResult ==
    last_turn.written > last_turn.tool_calls
        => /\ last_turn.tool_results = last_turn.written
           /\ last_turn.continued

\* C33: a call that supplies a parameter the tool does not declare is
\* rejected like a call of an unknown tool: it yields an error and the tool
\* is not run with the remaining parameters
C33_UndeclaredParameterRejected ==
    (/\ last_validate.tool_name \in RegisteredTools
     /\ ~(DOMAIN last_validate.parameters \subseteq DOMAIN get_tool_config(last_validate.tool_name)))
        => last_validate.error # "none" /\ ~last_validate.executed

\* C31: an event whose handling failed is counted by the worker: after it
\* the counter of consecutive errors is n >= 1 and the worker sleeps
\* min(2n, 10) seconds before the next pull, or, at the fifth in a row, the
\* worker sleeps 30 seconds and the counter is back at 0
C31_FailureCountedAndSleptOn ==
    (last_dispatch.delivery_id # None /\ ~last_dispatch.success)
        => \E consecutive_errors \in 0..(max_consecutive_errors - 1) :
               last_dispatch.worker = after_exception(consecutive_errors)

\* C34: the quota of an operation class is consumed by that class only: a
\* chat-user is refused in a class only when the grants of that class in
\* the window have reached the class's own limit
C34_RefusedOnlyAtOwnLimit ==
    (last_check.user_id # None /\ ~last_check.ok)
        => granted[last_check.user_id][last_check.operation_type]
               >= global_limits[limit_key(last_check.operation_type)]

\* C35: no chat-user is granted more than requests_per_minute = 10 requests
\* within one minute
C35_AtMostTenPerMinute ==
    \A user_id \in QQUsers : granted_now[user_id] <= requests_per_minute

\* C37: a context holds at most max_messages = 100 messages, in arrival
\* order: the messages kept are a subsequence of the appends, none twice
C37_BoundedAndInArrivalOrder ==
    /\ Len(conv_messages) <= max_messages
    /\ \A i, j \in 1..Len(conv_messages) : i < j => conv_messages[i].id < conv_messages[j].id

\* C36: a chat message refused by the generic rate limit, by its length
\* (more than 4000 characters) or by the sender's level (below READ) gets a
\* refusal phrase as its reply, nothing is appended to the context and the
\* model is not called
C36_RefusedBeforeProcessing ==
    (/\ last_chat.user_id # None
     /\ \/ last_chat.rate_refused
        \/ last_chat.content_length > max_message_length
        \/ permission_hierarchy(last_chat.level) < permission_hierarchy("read"))
        => /\ last_chat.reply \in {"rate_limited", "too_long", "no_permission"}
           /\ ~last_chat.appended
           /\ ~last_chat.llm_invoked

C36_Witness ==
    /\ last_chat.user_id = ContextOwner
    /\ last_chat.content_length > max_message_length
    /\ last_chat.reply = "too_long"
    /\ ~last_chat.appended
    /\ Len(conv_messages) >= 2

\* C38: a recall of the chat message r removes from the context the user
\* message recorded for r and the assistant message that follows it as its
\* reply, and nothing else
C38_RecallRemovesRecordedPair ==
    (/\ last_recall.operator_id = ContextOwner
     /\ last_recall.present)
        => /\ last_recall.removed = {last_recall.recalled_message_id,
                                     last_recall.recalled_message_id + 1}
           /\ \A i \in 1..Len(conv_messages) : conv_messages[i].id \notin last_recall.removed
====
